---------------------------- MODULE Spec2Model ----------------------------
(***************************************************************************)
(* DAVIS event-stream acquisition and translation pipeline.                *)
(*                                                                         *)
(* The model follows davisEventTranslator word by word.  One iteration of  *)
(* its loop is a decode step (the switch over the word, pc = "decode")     *)
(* followed by the four commit blocks in the order of the source           *)
(* (polarity, frame, IMU6, special).  The consumer thread runs             *)
(* davisCommonDataGet and shares only the data exchange buffer with the    *)
(* translator, so it may take a step between any two ring-buffer           *)
(* operations of the translator.                                           *)
(*                                                                         *)
(* The initial state is the state in which the first transfer completes:   *)
(* the handle was zeroed by calloc, davisOpen stored the geometry and      *)
(* davisCommonDataStart allocated the buffer and the four packets.         *)
(***************************************************************************)
EXTENDS Integers, Sequences, FiniteSets

\* ------------------------------------------------------------------ bounds
\* Number of words the transfers deliver in one run.
MaxWords == 4
\* Number of words of a run of the timestamp specification.
MaxTsWords == 19
MaxApsWords == 7
\* dataExchangeBufferSize (default 64).
DataExchangeBufferSize == 2
\* maxPolarityPacketSize (default 4096), maxSpecialPacketSize (128),
\* maxFramePacketSize (4), maxIMU6PacketSize (8).
MaxPolarityPacketSize == 3
MaxSpecialPacketSize == 3
MaxFramePacketSize == 3
MaxIMU6PacketSize == 3
\* max*PacketInterval in microseconds (defaults 5000, 1000, 50000, 5000).
MaxPolarityPacketInterval == 40
MaxSpecialPacketInterval == 40
MaxFramePacketInterval == 40
MaxIMU6PacketInterval == 40
\* Sensor geometry reported by the device.
DvsSizeX == 194
DvsSizeY == 2
ApsWindow0SizeX == 2
ApsWindow0SizeY == 1
\* Number of words of a run of the ADC sample specification.
MaxAdcWords == 5
MaxCommitWords == 5
MaxUniformWords == 12
MaxImuWords == 20
MaxLifeWords == 2
MaxGetWords == 3
MaxSessionWords == 5
MaxSessionPackets == 8
\* Number of words of a run with ignored APS and IMU events.
MaxIgnoreWords == 4
\* Number of words of a run with words the translator cannot handle.
MaxAnomalyWords == 4
\* Number of words of a run in which put and announcement are two steps.
MaxNotifyWords == 3
NumTransfers == 2

\* ------------------------------------------------------- program constants
MaxI32 == 2147483647
HighGainColumns == 192
APS_READOUT_RESET == 0
APS_READOUT_SIGNAL == 1
APS_READOUT_TYPES_NUM == 2
DAVIS_ADC_DEPTH == 10
\* apsWindow0StartX/Y: never assigned, zero from the calloc of the handle.
ApsWindow0StartX == 0
ApsWindow0StartY == 0
\* The sensor is larger than the readout window.
ApsSizeX == ApsWindow0SizeX + 1
ApsSizeY == ApsWindow0SizeY + 1

VARIABLES
    \* configuration read from the device by davisOpen, and the blocking
    \* setting of the data exchange
    chipID, dvsInvertXY, apsInvertXY, apsFlipX, apsFlipY,
    dataExchangeBlocking,
    \* timestamp reconstruction
    wrapAdd, lastTimestamp, currentTimestamp,
    \* DVS half-event latch
    dvsTimestamp, dvsGotY, dvsLastY,
    \* APS frame state machine
    apsCurrentReadoutType, apsCountX, apsCountY,
    apsGlobalShutter, apsResetRead, apsIgnoreEvents,
    apsRGBPixelOffset, apsRGBPixelOffsetDirection,
    \* reset read staging buffer (apsSizeX * apsSizeY samples), and whether a
    \* pixel store or load has gone outside the array it addressed
    apsCurrentResetFrame, heapCorrupted,
    \* IMU: sample reassembly state and the scales of the last configuration;
    \* observation: the last IMU start and the IMU words decoded since, and the
    \* currentTimestamp at that start
    imuIgnoreEvents, imuCount, imuTmpData, imuAccelScale, imuGyroScale,
    imuLog, imuStartTimestamp,
    \* in-progress packets and their fill positions
    currentPolarityPacket, currentPolarityPacketPosition,
    currentSpecialPacket, currentSpecialPacketPosition,
    currentFramePacket, currentFramePacketPosition,
    currentIMU6Packet, currentIMU6PacketPosition,
    \* exchange buffer shared with the consumer
    dataExchangeBuffer,
    \* the translator loop: length of the delivered byte stream, words
    \* decoded so far (i / 2), position in the iteration, and its locals
    bytesSent, nWords, pc, event, forcePacketCommit,
    \* packets allocated so far
    nAlloc,
    \* the return value of the consumer's last davisCommonDataGet
    container,
    \* observation of the exchange: packets whose put returned true, packets
    \* returned by Get, packets freed after a failed put, notifications
    putLog, getLog, dropLog, dataNotifyIncreased, dataNotifyDecreased,
    \* observation of timestamp resets: a reset was decoded and the consumer
    \* has obtained nothing since; container is the first item it obtained
    \* after a reset was decoded
    resetPending, containerAfterReset,
    \* observation of the timestamp stream (timestamp specification only):
    \* the number of times the device's 15-bit tick counter has rolled over,
    \* and for the last two timestamp words the device clock (rollovers,
    \* tick) and the currentTimestamp that was reconstructed
    devWraps, tickLog,
    \* the word decoded before `event`, and the currentTimestamp at the last
    \* accepted Y address
    prevEvent, latchedTimestamp,
    \* start and stop: position of the thread that calls Start, Get and Stop,
    \* the run flag, position of the data acquisition thread, the slot its
    \* cancel loop is at, the transfer whose callback is running, the
    \* transfer array (empty when not allocated; per slot NULL, or a transfer
    \* that is submitted, completed or cancelled with its callback pending),
    \* the count of active transfers, whether the packet container is
    \* allocated, and observation: the packets freed by Start and Stop, and
    \* the allocation that failed in Start
    appPc, dataAcquisitionThreadRun, workerPc, cancelIndex, callbackTransfer,
    dataTransfers, activeDataTransfers, currentPacketContainer, freedPackets,
    startFailure,
    \* observation: a transfer was not submitted, a resubmission failed, or
    \* a transfer was cancelled or ended with the device gone
    transferFailed,
    \* davisOpen: its position and result, the memory of the handle, the USB
    \* device handle and context, the logic revision and serial number of
    \* the device, the revision and serial number the caller asks for, and
    \* whether the handle was read after it was freed
    openPc, handleMemory, deviceHandle, deviceContext, logicVersion,
    requiredLogicRevision, serialNumber, serialNumberRestrict,
    handleReadAfterFree,
    \* the control transfers: the parameter given to spiConfigSend, the
    \* payload on the wire, the value spiConfigReceive returns, and which
    \* of the two has run
    spiParam, spiConfig, returnedParam, spiPc,
    \* the bulk transfers: the payloads of the transfers of a stream in the
    \* order they complete, the payloads libusb has not yet handed to the
    \* callback, the buffer of the translator call under way, and
    \* observation: the decoder state that the stream left behind
    usbPayloads, completedPayloads, buffer, splitResult

openVars == <<openPc, handleMemory, deviceHandle, deviceContext,
              logicVersion, requiredLogicRevision, serialNumber,
              serialNumberRestrict, handleReadAfterFree>>
spiVars == <<spiParam, spiConfig, returnedParam, spiPc>>
payloadVars == <<usbPayloads, completedPayloads, buffer, splitResult>>
cfgVars == <<chipID, dvsInvertXY, apsInvertXY, apsFlipX, apsFlipY,
             dataExchangeBlocking, openVars, spiVars, payloadVars>>
adcVars == <<apsCurrentResetFrame, heapCorrupted>>
imuVars == <<imuCount, imuTmpData, imuAccelScale, imuGyroScale, imuLog,
             imuStartTimestamp>>
tsVars == <<wrapAdd, lastTimestamp, currentTimestamp>>
dvsVars == <<dvsTimestamp, dvsGotY, dvsLastY>>
apsVars == <<apsCurrentReadoutType, apsCountX, apsCountY, apsGlobalShutter,
             apsResetRead, apsIgnoreEvents, apsRGBPixelOffset,
             apsRGBPixelOffsetDirection>>
polarityVars == <<currentPolarityPacket, currentPolarityPacketPosition>>
specialVars == <<currentSpecialPacket, currentSpecialPacketPosition>>
frameVars == <<currentFramePacket, currentFramePacketPosition>>
imu6Vars == <<currentIMU6Packet, currentIMU6PacketPosition>>
consumerVars == <<container, getLog, dataNotifyDecreased, containerAfterReset>>
producerLogVars == <<putLog, dropLog, dataNotifyIncreased>>
tickVars == <<devWraps, tickLog>>
historyVars == <<prevEvent, latchedTimestamp>>
transferVars == <<workerPc, cancelIndex, callbackTransfer, dataTransfers,
                  activeDataTransfers, transferFailed>>
lifeVars == <<appPc, dataAcquisitionThreadRun, transferVars,
              currentPacketContainer, freedPackets, startFailure>>

vars == <<cfgVars, tsVars, dvsVars, apsVars, imuIgnoreEvents, polarityVars,
          specialVars, frameVars, imu6Vars, dataExchangeBuffer, bytesSent,
          nWords, pc, event, forcePacketCommit, nAlloc, consumerVars,
          producerLogVars, resetPending, tickVars, historyVars, adcVars,
          imuVars, lifeVars>>

\* everything davisOpen and the control transfers leave alone
streamVars == <<tsVars, dvsVars, apsVars, imuIgnoreEvents, polarityVars,
                specialVars, frameVars, imu6Vars, dataExchangeBuffer,
                bytesSent, nWords, pc, event, forcePacketCommit, nAlloc,
                consumerVars, producerLogVars, resetPending, tickVars,
                historyVars, adcVars, imuVars, lifeVars>>

\* --------------------------------------------------------- 32-bit integers
\* A uint32_t is held as the int32_t with the same bit pattern, so that the
\* conversion of wrapAdd + tick to the int32_t currentTimestamp is the
\* identity on the representation.  b is never negative here.
Add32(a, b) ==
    IF a > MaxI32 - b THEN (a - MaxI32 - 1) + (b - MaxI32 - 1) ELSE a + b

\* ------------------------------------------------------------ wire format
IsTimestamp(w) == (w \div 32768) % 2 = 1
TickOf(w) == w % 32768
CodeOf(w) == (w \div 4096) % 8
DataOf(w) == w % 4096

TimestampWordOf(tick) == 32768 + tick
EventWordOf(code, data) == code * 4096 + data

\* ---------------------------------------------------------------- packets
NULL == [type |-> "NULL"]

ZeroPolarityEvent == [timestamp |-> 0, x |-> 0, y |-> 0, polarity |-> 0,
                      valid |-> FALSE]
ZeroSpecialEvent == [timestamp |-> 0, type |-> "NONE", data |-> 0,
                     valid |-> FALSE]
ZeroFrameEvent == [tsStartOfFrame |-> 0, tsEndOfFrame |-> 0,
                   tsStartOfExposure |-> 0, tsEndOfExposure |-> 0,
                   lengthX |-> 0, lengthY |-> 0, valid |-> FALSE,
                   pixels |-> <<>>]
\* A float field of an event as the exact quotient num / den.
Quotient(num, den) == [num |-> num, den |-> den]
ZeroFloat == Quotient(0, 1)
ZeroIMU6Event == [timestamp |-> 0, valid |-> FALSE,
                  accelX |-> ZeroFloat, accelY |-> ZeroFloat,
                  accelZ |-> ZeroFloat, temp |-> ZeroFloat,
                  gyroX |-> ZeroFloat, gyroY |-> ZeroFloat,
                  gyroZ |-> ZeroFloat]

\* A packet is allocated zeroed; id stands for its address.
PacketAllocate(type, capacity, zero, id) ==
    [type |-> type, id |-> id, capacity |-> capacity,
     events |-> [i \in 0 .. capacity - 1 |-> zero]]

\* The IMU scales as exact quotients: LSB per g and LSB per degree/s.
calculateIMUAccelScale(imuAccelScaleSel) ==
    Quotient(65536, 4 * 2 ^ imuAccelScaleSel)
calculateIMUGyroScale(imuGyroScaleSel) ==
    Quotient(65536, 500 * 2 ^ imuGyroScaleSel)

caerPolarityEventPacketAllocate(id) ==
    PacketAllocate("POLARITY", MaxPolarityPacketSize, ZeroPolarityEvent, id)
caerSpecialEventPacketAllocate(id) ==
    PacketAllocate("SPECIAL", MaxSpecialPacketSize, ZeroSpecialEvent, id)
caerFrameEventPacketAllocate(id) ==
    PacketAllocate("FRAME", MaxFramePacketSize, ZeroFrameEvent, id)
caerIMU6EventPacketAllocate(id) ==
    PacketAllocate("IMU6", MaxIMU6PacketSize, ZeroIMU6Event, id)

GetEvent(packet, n) == packet.events[n]
SetEvent(packet, n, e) == [packet EXCEPT !.events[n] = e]

\* The events a consumer sees in a packet: the valid ones, in slot order.
RECURSIVE ValidEventsFrom(_, _)
ValidEventsFrom(packet, n) ==
    IF n >= packet.capacity THEN <<>>
    ELSE (IF packet.events[n].valid THEN <<packet.events[n]>> ELSE <<>>)
             \o ValidEventsFrom(packet, n + 1)
ValidEvents(packet) == ValidEventsFrom(packet, 0)

\* ---------------------------------------------------------- ring buffer
ringBufferInit(size) == [size |-> size, elems |-> <<>>]
ringBufferFull(rb) == Len(rb.elems) >= rb.size
\* put: false and no change when full.
ringBufferPut(rb, elem) ==
    IF ringBufferFull(rb)
    THEN [ok |-> FALSE, rb |-> rb]
    ELSE [ok |-> TRUE, rb |-> [rb EXCEPT !.elems = Append(@, elem)]]
\* get: the oldest element, NULL when empty.
ringBufferGet(rb) ==
    IF rb.elems = <<>>
    THEN [elem |-> NULL, rb |-> rb]
    ELSE [elem |-> Head(rb.elems), rb |-> [rb EXCEPT !.elems = Tail(@)]]

\* ------------------------------------------- translator: commit conditions
\* The commit conditions, evaluated after the decode step of every word.
\* The polarity commit condition with a span that must exceed the interval.
PolarityCommitDueWhenExceeded ==
    \/ forcePacketCommit
    \/ currentPolarityPacketPosition >= currentPolarityPacket.capacity
    \/ /\ currentPolarityPacketPosition > 1
       /\ GetEvent(currentPolarityPacket,
                   currentPolarityPacketPosition - 1).timestamp
              - GetEvent(currentPolarityPacket, 0).timestamp
              > MaxPolarityPacketInterval

\* The polarity commit condition with a packet that must be more than full.
PolarityCommitDueWhenOverfull ==
    \/ forcePacketCommit
    \/ currentPolarityPacketPosition > currentPolarityPacket.capacity
    \/ /\ currentPolarityPacketPosition > 1
       /\ GetEvent(currentPolarityPacket,
                   currentPolarityPacketPosition - 1).timestamp
              - GetEvent(currentPolarityPacket, 0).timestamp
              >= MaxPolarityPacketInterval

PolarityCommitDue ==
    \/ forcePacketCommit
    \/ currentPolarityPacketPosition >= currentPolarityPacket.capacity
    \/ /\ currentPolarityPacketPosition > 1
       /\ GetEvent(currentPolarityPacket,
                   currentPolarityPacketPosition - 1).timestamp
              - GetEvent(currentPolarityPacket, 0).timestamp
              >= MaxPolarityPacketInterval

FrameCommitDue ==
    \/ forcePacketCommit
    \/ currentFramePacketPosition >= currentFramePacket.capacity
    \/ /\ currentFramePacketPosition > 1
       /\ GetEvent(currentFramePacket,
                   currentFramePacketPosition - 1).tsStartOfExposure
              - GetEvent(currentFramePacket, 0).tsStartOfExposure
              >= MaxFramePacketInterval

IMU6CommitDue ==
    \/ forcePacketCommit
    \/ currentIMU6PacketPosition >= currentIMU6Packet.capacity
    \/ /\ currentIMU6PacketPosition > 1
       /\ GetEvent(currentIMU6Packet,
                   currentIMU6PacketPosition - 1).timestamp
              - GetEvent(currentIMU6Packet, 0).timestamp
              >= MaxIMU6PacketInterval

\* The special commit condition without the interval: a packet is committed
\* only when forced or full.
SpecialCommitDueWithoutInterval ==
    \/ forcePacketCommit
    \/ currentSpecialPacketPosition >= currentSpecialPacket.capacity

SpecialCommitDue ==
    \/ forcePacketCommit
    \/ currentSpecialPacketPosition >= currentSpecialPacket.capacity
    \/ /\ currentSpecialPacketPosition > 1
       /\ GetEvent(currentSpecialPacket,
                   currentSpecialPacketPosition - 1).timestamp
              - GetEvent(currentSpecialPacket, 0).timestamp
              >= MaxSpecialPacketInterval

\* The blocks run in the order polarity, frame, IMU6, special.  A block whose
\* condition is false touches nothing, so control moves straight to the
\* next block that has something to commit, or to the next word.
BlockFrom(block) ==
    IF block <= 1 /\ PolarityCommitDue THEN "commitPolarity"
    ELSE IF block <= 2 /\ FrameCommitDue THEN "commitFrame"
    ELSE IF block <= 3 /\ IMU6CommitDue THEN "commitIMU6"
    ELSE IF SpecialCommitDue THEN "commitSpecial"
    ELSE "decode"

Dispatch == pc' = BlockFrom(1)'

\* ------------------------------------------------- translator: decode step
\* Start of one iteration of the loop over the transfer's words: the word is
\* fetched and forcePacketCommit is cleared; the commit blocks follow.
Fetch(w) ==
    /\ pc = "decode"
    /\ 2 * nWords < bytesSent
    /\ nWords' = nWords + 1
    /\ event' = w
    /\ prevEvent' = event

\* The variables no decode step touches.  Every decode step ends with
\* Dispatch (defined with the commit blocks): control passes to the first
\* commit block whose condition holds.
DecodeFrameCommon ==
    UNCHANGED <<cfgVars, bytesSent, dataExchangeBuffer, nAlloc, consumerVars,
                producerLogVars, lifeVars>>

DecodeFrame == DecodeFrameCommon /\ UNCHANGED <<adcVars, imuVars>>

ResetDoesNotForceCommit == FALSE
\* Whether a timestamp reset forces the commit of all four packets.
ResetForcesCommit == TRUE

\* Timestamp word: expand the 15-bit tick with wrapAdd.
TimestampWordStep(w) ==
    /\ IsTimestamp(w)
    /\ Fetch(w)
    /\ forcePacketCommit' = FALSE
    /\ lastTimestamp' = currentTimestamp
    /\ currentTimestamp' = Add32(wrapAdd, TickOf(w))
    /\ UNCHANGED <<wrapAdd, dvsVars, apsVars, imuIgnoreEvents, polarityVars,
                   specialVars, frameVars, imu6Vars>>
    /\ DecodeFrame /\ UNCHANGED resetPending

\* Code 7, timestamp wrap: wrapAdd += 0x8000 * data.
TimestampWrapStep(w) ==
    /\ ~IsTimestamp(w) /\ CodeOf(w) = 7
    /\ Fetch(w)
    /\ forcePacketCommit' = FALSE
    /\ wrapAdd' = Add32(wrapAdd, 32768 * DataOf(w))
    /\ lastTimestamp' = currentTimestamp
    /\ currentTimestamp' = wrapAdd'
    /\ UNCHANGED <<dvsVars, apsVars, imuIgnoreEvents, polarityVars,
                   specialVars, frameVars, imu6Vars>>
    /\ DecodeFrame /\ UNCHANGED resetPending

TimestampWord(w) ==
    /\ TimestampWordStep(w)
    /\ UNCHANGED <<tickVars, latchedTimestamp>>
    /\ Dispatch
TimestampWrap(w) ==
    /\ TimestampWrapStep(w)
    /\ UNCHANGED <<tickVars, latchedTimestamp>>
    /\ Dispatch

\* Code 0, data 0 (reserved), data 6 and data > 31 (default branch), and the
\* unknown code 6: logged, nothing else.
UnhandledWord(w) ==
    /\ ~IsTimestamp(w)
    /\ \/ CodeOf(w) = 0 /\ (DataOf(w) = 0 \/ DataOf(w) = 6 \/ DataOf(w) > 31)
       \/ CodeOf(w) = 6
    /\ Fetch(w)
    /\ forcePacketCommit' = FALSE
    /\ UNCHANGED <<tsVars, dvsVars, apsVars, imuIgnoreEvents, polarityVars,
                   specialVars, frameVars, imu6Vars>>
    /\ DecodeFrame /\ UNCHANGED resetPending
    /\ UNCHANGED <<tickVars, latchedTimestamp>>
    /\ Dispatch

\* A special event written into the current slot of the special packet and
\* validated; the fill position advances.
AppendSpecial(ts, type, data) ==
    /\ currentSpecialPacket' =
           SetEvent(currentSpecialPacket, currentSpecialPacketPosition,
                    [timestamp |-> ts, type |-> type, data |-> data,
                     valid |-> TRUE])
    /\ currentSpecialPacketPosition' = currentSpecialPacketPosition + 1

\* Code 0, data 1: timestamp reset.  UINT32_MAX is stored in the event's
\* 32-bit timestamp field (-1 in the int32_t representation).
TimestampReset(w) ==
    /\ ~IsTimestamp(w) /\ CodeOf(w) = 0 /\ DataOf(w) = 1
    /\ Fetch(w)
    /\ wrapAdd' = 0
    /\ lastTimestamp' = 0
    /\ currentTimestamp' = 0
    /\ dvsTimestamp' = 0
    /\ AppendSpecial(-1, "TIMESTAMP_RESET", 0)
    /\ forcePacketCommit' = ResetForcesCommit
    /\ UNCHANGED <<dvsGotY, dvsLastY, apsVars, imuIgnoreEvents, polarityVars,
                   frameVars, imu6Vars>>
    /\ DecodeFrame /\ resetPending' = TRUE
    /\ UNCHANGED <<tickVars, latchedTimestamp>>
    /\ Dispatch

ExternalInputType(data) ==
    CASE data = 2 -> "EXTERNAL_INPUT_FALLING_EDGE"
      [] data = 3 -> "EXTERNAL_INPUT_RISING_EDGE"
      [] data = 4 -> "EXTERNAL_INPUT_PULSE"

\* Code 0, data 2/3/4: external input edge or pulse.
ExternalInput(w) ==
    /\ ~IsTimestamp(w) /\ CodeOf(w) = 0 /\ DataOf(w) \in {2, 3, 4}
    /\ Fetch(w)
    /\ forcePacketCommit' = FALSE
    /\ AppendSpecial(currentTimestamp, ExternalInputType(DataOf(w)), 0)
    /\ UNCHANGED <<tsVars, dvsVars, apsVars, imuIgnoreEvents, polarityVars,
                   frameVars, imu6Vars>>
    /\ DecodeFrame /\ UNCHANGED resetPending
    /\ UNCHANGED <<tickVars, latchedTimestamp>>
    /\ Dispatch

\* Code 1, Y address.  Out of range: skipped.  Latch already set: the previous
\* Y becomes a DVS_ROW_ONLY special event at dvsTimestamp.
YAddressRowOnlyAlways ==
    AppendSpecial(dvsTimestamp, "DVS_ROW_ONLY", dvsLastY)
YAddressRowOnly ==
    IF dvsGotY
    THEN AppendSpecial(dvsTimestamp, "DVS_ROW_ONLY", dvsLastY)
    ELSE UNCHANGED specialVars

YAddress(w) ==
    /\ ~IsTimestamp(w) /\ CodeOf(w) = 1
    /\ Fetch(w)
    /\ forcePacketCommit' = FALSE
    /\ IF DataOf(w) >= DvsSizeY
       THEN UNCHANGED <<dvsVars, specialVars, latchedTimestamp>>
       ELSE /\ YAddressRowOnly
            /\ dvsLastY' = DataOf(w)
            /\ dvsGotY' = TRUE
            /\ dvsTimestamp' = currentTimestamp
            /\ latchedTimestamp' = currentTimestamp
    /\ UNCHANGED <<tsVars, apsVars, imuIgnoreEvents, polarityVars, frameVars,
                   imu6Vars>>
    /\ DecodeFrame /\ UNCHANGED resetPending
    /\ UNCHANGED tickVars
    /\ Dispatch

\* (uint8_t) ~code for the high-gain columns of the DAVIS208, else code; the
\* event keeps bit 0.
PolarityOf(code, data) ==
    IF chipID = "DAVIS208" /\ data < HighGainColumns
    THEN (255 - code) % 2
    ELSE code % 2

PolarityEventAtCurrentTimestamp(code, data) ==
    [timestamp |-> currentTimestamp,
     polarity |-> PolarityOf(code, data),
     x |-> IF dvsInvertXY THEN dvsLastY ELSE data,
     y |-> IF dvsInvertXY THEN data ELSE dvsLastY,
     valid |-> TRUE]

\* The polarity event of an in-range X address: timestamp of the latched Y,
\* coordinates swapped when dvsInvertXY.
PolarityEventOf(code, data) ==
    [timestamp |-> dvsTimestamp,
     polarity |-> PolarityOf(code, data),
     x |-> IF dvsInvertXY THEN dvsLastY ELSE data,
     y |-> IF dvsInvertXY THEN data ELSE dvsLastY,
     valid |-> TRUE]

XAddressAcceptedAnywhere(data) == TRUE

XAddressAcceptedWithLatch(data) == data < DvsSizeX /\ dvsGotY
\* Whether an X address produces a polarity event: the range check only.
XAddressAccepted(data) == data < DvsSizeX

\* Code 2 (polarity OFF) and 3 (polarity ON), X address.
XAddress(w) ==
    /\ ~IsTimestamp(w) /\ CodeOf(w) \in {2, 3}
    /\ Fetch(w)
    /\ forcePacketCommit' = FALSE
    /\ IF ~XAddressAccepted(DataOf(w))
       THEN UNCHANGED <<dvsGotY, polarityVars>>
       ELSE /\ currentPolarityPacket' =
                   SetEvent(currentPolarityPacket,
                            currentPolarityPacketPosition,
                            PolarityEventOf(CodeOf(w), DataOf(w)))
            /\ currentPolarityPacketPosition' =
                   currentPolarityPacketPosition + 1
            /\ dvsGotY' = FALSE
    /\ UNCHANGED <<tsVars, dvsTimestamp, dvsLastY, apsVars, imuIgnoreEvents,
                   specialVars, frameVars, imu6Vars>>
    /\ DecodeFrame /\ UNCHANGED resetPending
    /\ UNCHANGED <<tickVars, latchedTimestamp>>
    /\ Dispatch

\* ------------------------------------------------------ translator: APS
CurrentFrameEvent == GetEvent(currentFramePacket, currentFramePacketPosition)
SetCurrentFrameEvent(e) ==
    currentFramePacket' =
        SetEvent(currentFramePacket, currentFramePacketPosition, e)

\* initFrame: readout state cleared, start-of-frame stamped, pixels allocated
\* for the current window (which sets the event's lengths).
initFrame(frameEvent) ==
    [frameEvent EXCEPT !.tsStartOfFrame = currentTimestamp,
                       !.lengthX = ApsWindow0SizeX,
                       !.lengthY = ApsWindow0SizeY,
                       !.pixels =
                           [p \in 0 .. ApsWindow0SizeX * ApsWindow0SizeY - 1
                                |-> 0]]

\* Code 0, data 8/9 (GS/RS frame start) and 14/15 (the same without reset
\* read, where start of exposure is the start of frame).
APSFrameStart(w) ==
    /\ ~IsTimestamp(w) /\ CodeOf(w) = 0 /\ DataOf(w) \in {8, 9, 14, 15}
    /\ Fetch(w)
    /\ forcePacketCommit' = FALSE
    /\ apsIgnoreEvents' = FALSE
    /\ apsGlobalShutter' = (DataOf(w) \in {8, 14})
    /\ apsResetRead' = (DataOf(w) \in {8, 9})
    /\ apsCurrentReadoutType' = APS_READOUT_RESET
    /\ apsCountX' = [j \in 0 .. APS_READOUT_TYPES_NUM - 1 |-> 0]
    /\ apsCountY' = [j \in 0 .. APS_READOUT_TYPES_NUM - 1 |-> 0]
    /\ SetCurrentFrameEvent(
           IF DataOf(w) \in {14, 15}
           THEN [initFrame(CurrentFrameEvent)
                     EXCEPT !.tsStartOfExposure = currentTimestamp]
           ELSE initFrame(CurrentFrameEvent))
    /\ UNCHANGED <<tsVars, dvsVars, apsRGBPixelOffset,
                   apsRGBPixelOffsetDirection, imuIgnoreEvents, polarityVars,
                   specialVars, currentFramePacketPosition, imu6Vars>>
    /\ DecodeFrame /\ UNCHANGED resetPending
    /\ UNCHANGED <<tickVars, latchedTimestamp>>
    /\ Dispatch

FrameEndCheckValueIsWidth(j) == CurrentFrameEvent.lengthX
\* The column count a readout must have reached at frame end: the frame's
\* width, or zero for the reset read when reset reads are disabled.
FrameEndCheckValue(j) ==
    IF j = APS_READOUT_RESET /\ ~apsResetRead
    THEN 0
    ELSE CurrentFrameEvent.lengthX

FrameEndValid ==
    \A j \in 0 .. APS_READOUT_TYPES_NUM - 1 :
        apsCountX[j] = FrameEndCheckValue(j)

\* Code 0, data 10: frame end.  The slot is consumed whether or not the frame
\* is validated.
APSFrameEnd(w) ==
    /\ ~IsTimestamp(w) /\ CodeOf(w) = 0 /\ DataOf(w) = 10
    /\ Fetch(w)
    /\ forcePacketCommit' = FALSE
    /\ IF apsIgnoreEvents
       THEN UNCHANGED frameVars
       ELSE /\ SetCurrentFrameEvent(
                   [CurrentFrameEvent
                        EXCEPT !.tsEndOfFrame = currentTimestamp,
                               !.valid = FrameEndValid])
            /\ currentFramePacketPosition' = currentFramePacketPosition + 1
    /\ UNCHANGED <<tsVars, dvsVars, apsVars, imuIgnoreEvents, polarityVars,
                   specialVars, imu6Vars>>
    /\ DecodeFrame /\ UNCHANGED resetPending
    /\ UNCHANGED <<tickVars, latchedTimestamp>>
    /\ Dispatch

\* Code 0, data 11 (reset column start) and 12 (signal column start).
APSColumnStart(w) ==
    /\ ~IsTimestamp(w) /\ CodeOf(w) = 0 /\ DataOf(w) \in {11, 12}
    /\ Fetch(w)
    /\ forcePacketCommit' = FALSE
    /\ IF apsIgnoreEvents
       THEN UNCHANGED <<apsCurrentReadoutType, apsCountY, apsRGBPixelOffset,
                        apsRGBPixelOffsetDirection, currentFramePacket>>
       ELSE LET type == IF DataOf(w) = 11 THEN APS_READOUT_RESET
                                          ELSE APS_READOUT_SIGNAL
            IN /\ apsCurrentReadoutType' = type
               /\ apsCountY' = [apsCountY EXCEPT ![type] = 0]
               /\ apsRGBPixelOffsetDirection' = 0
               /\ apsRGBPixelOffset' = 1
               /\ IF type = APS_READOUT_RESET
                  THEN IF ~apsGlobalShutter /\ apsCountX[APS_READOUT_RESET] = 0
                       THEN SetCurrentFrameEvent(
                                [CurrentFrameEvent EXCEPT
                                     !.tsStartOfExposure = currentTimestamp])
                       ELSE UNCHANGED currentFramePacket
                  ELSE IF apsCountX[APS_READOUT_SIGNAL] = 0
                       THEN SetCurrentFrameEvent(
                                [CurrentFrameEvent EXCEPT
                                     !.tsEndOfExposure = currentTimestamp])
                       ELSE UNCHANGED currentFramePacket
    /\ UNCHANGED <<tsVars, dvsVars, apsCountX, apsGlobalShutter, apsResetRead,
                   apsIgnoreEvents, imuIgnoreEvents, polarityVars,
                   specialVars, currentFramePacketPosition, imu6Vars>>
    /\ DecodeFrame /\ UNCHANGED resetPending
    /\ UNCHANGED <<tickVars, latchedTimestamp>>
    /\ Dispatch

\* A column end that is counted whether APS events are ignored or not.
APSColumnEndIgnoringFlag(w) ==
    /\ ~IsTimestamp(w) /\ CodeOf(w) = 0 /\ DataOf(w) = 13
    /\ Fetch(w)
    /\ forcePacketCommit' = FALSE
    /\ apsCountX' = [apsCountX EXCEPT ![apsCurrentReadoutType] = @ + 1]
    /\ IF /\ apsGlobalShutter
          /\ apsCurrentReadoutType = APS_READOUT_RESET
          /\ apsCountX'[APS_READOUT_RESET] = CurrentFrameEvent.lengthX
       THEN SetCurrentFrameEvent(
                [CurrentFrameEvent EXCEPT
                     !.tsStartOfExposure = currentTimestamp])
       ELSE UNCHANGED currentFramePacket
    /\ UNCHANGED <<tsVars, dvsVars, apsCurrentReadoutType, apsCountY,
                   apsGlobalShutter, apsResetRead, apsIgnoreEvents,
                   apsRGBPixelOffset, apsRGBPixelOffsetDirection,
                   imuIgnoreEvents, polarityVars, specialVars,
                   currentFramePacketPosition, imu6Vars>>
    /\ DecodeFrame /\ UNCHANGED resetPending
    /\ UNCHANGED <<tickVars, latchedTimestamp>>
    /\ Dispatch

\* Code 0, data 13: column end.  A wrong row count is logged only.
APSColumnEnd(w) ==
    /\ ~IsTimestamp(w) /\ CodeOf(w) = 0 /\ DataOf(w) = 13
    /\ Fetch(w)
    /\ forcePacketCommit' = FALSE
    /\ IF apsIgnoreEvents
       THEN UNCHANGED <<apsCountX, currentFramePacket>>
       ELSE /\ apsCountX' = [apsCountX EXCEPT
                                 ![apsCurrentReadoutType] = @ + 1]
            /\ IF /\ apsGlobalShutter
                  /\ apsCurrentReadoutType = APS_READOUT_RESET
                  /\ apsCountX'[APS_READOUT_RESET] = CurrentFrameEvent.lengthX
               THEN SetCurrentFrameEvent(
                        [CurrentFrameEvent EXCEPT
                             !.tsStartOfExposure = currentTimestamp])
               ELSE UNCHANGED currentFramePacket
    /\ UNCHANGED <<tsVars, dvsVars, apsCurrentReadoutType, apsCountY,
                   apsGlobalShutter, apsResetRead, apsIgnoreEvents,
                   apsRGBPixelOffset, apsRGBPixelOffsetDirection,
                   imuIgnoreEvents, polarityVars, specialVars,
                   currentFramePacketPosition, imu6Vars>>
    /\ DecodeFrame /\ UNCHANGED resetPending
    /\ UNCHANGED <<tickVars, latchedTimestamp>>
    /\ Dispatch

\* ------------------------------------------------ translator: ADC samples
U16T(x) == x % 65536

\* Coordinates of the sample in the frame: counted column and row, mirrored
\* by apsFlipX/Y, shifted for the DAVISRGB, exchanged by apsInvertXY.
ADCSampleXPos ==
    LET lengthX == CurrentFrameEvent.lengthX
        lengthY == CurrentFrameEvent.lengthY
        x == IF apsFlipX
             THEN U16T(lengthX - 1 - apsCountX[apsCurrentReadoutType])
             ELSE U16T(apsCountX[apsCurrentReadoutType])
        y0 == IF apsFlipY
              THEN U16T(lengthY - 1 - apsCountY[apsCurrentReadoutType])
              ELSE U16T(apsCountY[apsCurrentReadoutType])
        y == IF chipID = "DAVISRGB" THEN U16T(y0 + apsRGBPixelOffset) ELSE y0
    IN [xPos |-> IF apsInvertXY THEN y ELSE x,
        yPos |-> IF apsInvertXY THEN x ELSE y]

PixelPosition ==
    ADCSampleXPos.yPos * CurrentFrameEvent.lengthX + ADCSampleXPos.xPos

PixelPositionAbs ==
    U16T(ADCSampleXPos.yPos + ApsWindow0StartY) * ApsSizeX
        + U16T(ADCSampleXPos.xPos + ApsWindow0StartX)

\* The sample goes to the reset staging buffer: the reset read, or on the
\* DAVISRGB with global shutter the signal read, which comes first there.
StoresResetSample ==
    LET rgbGS == chipID = "DAVISRGB" /\ apsGlobalShutter
    IN \/ apsCurrentReadoutType = APS_READOUT_RESET /\ ~rgbGS
       \/ apsCurrentReadoutType = APS_READOUT_SIGNAL /\ rgbGS

\* What a load outside the staging buffer may return.
StraySamples == {0, 4095}
ResetSamplesAt(p) ==
    IF p \in DOMAIN apsCurrentResetFrame
    THEN {apsCurrentResetFrame[p]}
    ELSE StraySamples

\* Correlated double sampling: the difference, clamped at zero, shifted to 16
\* bit depth and converted to uint16_t.
PixelValue16(reset, data) ==
    LET diff == IF chipID = "DAVISRGB" /\ apsGlobalShutter
                THEN data - reset ELSE reset - data
        pixelValue == IF diff < 0 THEN 0 ELSE diff
    IN U16T(pixelValue * 2 ^ (16 - DAVIS_ADC_DEPTH))

\* A store at index p of an array: outside the array it hits other memory.
StoreAt(array, p, v) ==
    IF p \in DOMAIN array THEN [array EXCEPT ![p] = v] ELSE array

RGBPixelOffsetStep ==
    IF chipID # "DAVISRGB"
    THEN UNCHANGED <<apsRGBPixelOffset, apsRGBPixelOffsetDirection>>
    ELSE IF apsRGBPixelOffsetDirection = 0
         THEN IF apsRGBPixelOffset + 1 = 321
              THEN /\ apsRGBPixelOffsetDirection' = 1
                   /\ apsRGBPixelOffset' = 318
              ELSE /\ apsRGBPixelOffset' = apsRGBPixelOffset + 1
                   /\ UNCHANGED apsRGBPixelOffsetDirection
         ELSE /\ apsRGBPixelOffset' = apsRGBPixelOffset - 3
              /\ UNCHANGED apsRGBPixelOffsetDirection

\* Code 4: APS ADC sample.
ADCSample(w) ==
    /\ ~IsTimestamp(w) /\ CodeOf(w) = 4
    /\ Fetch(w)
    /\ forcePacketCommit' = FALSE
    /\ IF \/ apsIgnoreEvents
          \/ apsCountY[apsCurrentReadoutType] >= CurrentFrameEvent.lengthY
       THEN UNCHANGED <<apsCountY, apsRGBPixelOffset,
                        apsRGBPixelOffsetDirection, currentFramePacket,
                        adcVars>>
       ELSE /\ IF StoresResetSample
               THEN /\ apsCurrentResetFrame' =
                           StoreAt(apsCurrentResetFrame, PixelPositionAbs,
                                   DataOf(w))
                    /\ heapCorrupted' =
                           (heapCorrupted
                               \/ PixelPositionAbs
                                      \notin DOMAIN apsCurrentResetFrame)
                    /\ UNCHANGED currentFramePacket
               ELSE /\ \E reset \in ResetSamplesAt(PixelPositionAbs) :
                           SetCurrentFrameEvent(
                               [CurrentFrameEvent EXCEPT !.pixels =
                                    StoreAt(@, PixelPosition,
                                            PixelValue16(reset, DataOf(w)))])
                    /\ heapCorrupted' =
                           (heapCorrupted
                               \/ PixelPositionAbs
                                      \notin DOMAIN apsCurrentResetFrame
                               \/ PixelPosition
                                      \notin DOMAIN CurrentFrameEvent.pixels)
                    /\ UNCHANGED apsCurrentResetFrame
            /\ apsCountY' = [apsCountY EXCEPT ![apsCurrentReadoutType] = @ + 1]
            /\ RGBPixelOffsetStep
    /\ UNCHANGED <<tsVars, dvsVars, apsCurrentReadoutType, apsCountX,
                   apsGlobalShutter, apsResetRead, apsIgnoreEvents,
                   imuIgnoreEvents, polarityVars, specialVars,
                   currentFramePacketPosition, imu6Vars>>
    /\ DecodeFrameCommon /\ UNCHANGED <<resetPending, imuVars>>
    /\ UNCHANGED <<tickVars, latchedTimestamp>>
    /\ Dispatch

\* ------------------------------------------------ translator: IMU samples
\* The number of IMU words behind an IMU start that make a complete sample:
\* the scale configuration and 14 data bytes.  The defining header is not
\* part of the sources at hand; 15 is the value with which the byte counted
\* as number 14 (gyro Z, second byte) is assembled rather than discarded.
IMU6_COUNT == 15

CurrentIMU6Event == GetEvent(currentIMU6Packet, currentIMU6PacketPosition)
SetCurrentIMU6Event(e) ==
    currentIMU6Packet' =
        SetEvent(currentIMU6Packet, currentIMU6PacketPosition, e)

\* (int16_t) of a 16-bit pattern.
ToInt16(v) ==
    IF v % 65536 >= 32768 THEN (v % 65536) - 65536 ELSE v % 65536
AssembleInt16LittleEndian(tmpData, misc8Data) ==
    ToInt16(misc8Data * 256 + tmpData)
\* (int16_t) ((imuTmpData << 8) | misc8Data)
AssembleInt16(tmpData, misc8Data) == ToInt16(tmpData * 256 + misc8Data)
\* raw / scale, and (raw / 340.0f) + 36.53f
Scaled(raw, scale) == Quotient(raw * scale.den, scale.num)
Temperature(raw) == Quotient(raw * 100 + 3653 * 340, 34000)

LogIMUWord(w) == imuLog' = Append(imuLog, w)

\* Code 0, data 5: IMU start.
IMUStart(w) ==
    /\ ~IsTimestamp(w) /\ CodeOf(w) = 0 /\ DataOf(w) = 5
    /\ Fetch(w)
    /\ forcePacketCommit' = FALSE
    /\ imuIgnoreEvents' = FALSE
    /\ imuCount' = 0
    /\ SetCurrentIMU6Event(
           [CurrentIMU6Event EXCEPT !.timestamp = currentTimestamp])
    /\ imuLog' = <<w>> /\ imuStartTimestamp' = currentTimestamp
    /\ UNCHANGED <<tsVars, dvsVars, apsVars, polarityVars, specialVars,
                   frameVars, currentIMU6PacketPosition, imuTmpData,
                   imuAccelScale, imuGyroScale>>
    /\ DecodeFrameCommon /\ UNCHANGED <<adcVars, resetPending>>
    /\ UNCHANGED <<tickVars, latchedTimestamp>>
    /\ Dispatch

IMUEndValidatesAlways == TRUE
\* The sample count an IMU end requires to validate the event.
IMUEndValidates == imuCount = IMU6_COUNT

\* Code 0, data 7: IMU end.
IMUEnd(w) ==
    /\ ~IsTimestamp(w) /\ CodeOf(w) = 0 /\ DataOf(w) = 7
    /\ Fetch(w)
    /\ forcePacketCommit' = FALSE
    /\ IF ~imuIgnoreEvents /\ IMUEndValidates
       THEN /\ SetCurrentIMU6Event([CurrentIMU6Event EXCEPT !.valid = TRUE])
            /\ currentIMU6PacketPosition' = currentIMU6PacketPosition + 1
       ELSE UNCHANGED imu6Vars
    /\ LogIMUWord(w)
    /\ UNCHANGED <<tsVars, dvsVars, apsVars, imuIgnoreEvents, polarityVars,
                   specialVars, frameVars, imuCount, imuTmpData,
                   imuAccelScale, imuGyroScale, imuStartTimestamp>>
    /\ DecodeFrameCommon /\ UNCHANGED <<adcVars, resetPending>>
    /\ UNCHANGED <<tickVars, latchedTimestamp>>
    /\ Dispatch

\* Code 0, data 16..31: IMU scale configuration.
IMUScaleConfig(w) ==
    /\ ~IsTimestamp(w) /\ CodeOf(w) = 0 /\ DataOf(w) \in 16 .. 31
    /\ Fetch(w)
    /\ forcePacketCommit' = FALSE
    /\ IF imuIgnoreEvents
       THEN UNCHANGED <<imuAccelScale, imuGyroScale, imuCount>>
       ELSE /\ imuAccelScale' =
                   calculateIMUAccelScale((DataOf(w) \div 4) % 4)
            /\ imuGyroScale' = calculateIMUGyroScale(DataOf(w) % 4)
            /\ imuCount' = 1
    /\ LogIMUWord(w)
    /\ UNCHANGED <<tsVars, dvsVars, apsVars, imuIgnoreEvents, polarityVars,
                   specialVars, frameVars, imu6Vars, imuTmpData,
                   imuStartTimestamp>>
    /\ DecodeFrameCommon /\ UNCHANGED <<adcVars, resetPending>>
    /\ UNCHANGED <<tickVars, latchedTimestamp>>
    /\ Dispatch

\* The switch on imuCount for one data byte: odd counts keep the byte, even
\* counts complete a 16-bit value and store it in the event.
IMUSample(count, misc8Data) ==
    LET raw == AssembleInt16(imuTmpData, misc8Data)
        e == CurrentIMU6Event
    IN IF count \in {1, 3, 5, 7, 9, 11, 13}
       THEN imuTmpData' = misc8Data /\ UNCHANGED currentIMU6Packet
       ELSE /\ UNCHANGED imuTmpData
            /\ CASE count = 2 ->
                      SetCurrentIMU6Event(
                          [e EXCEPT !.accelX = Scaled(raw, imuAccelScale)])
                 [] count = 4 ->
                      SetCurrentIMU6Event(
                          [e EXCEPT !.accelY = Scaled(raw, imuAccelScale)])
                 [] count = 6 ->
                      SetCurrentIMU6Event(
                          [e EXCEPT !.accelZ = Scaled(raw, imuAccelScale)])
                 [] count = 8 ->
                      SetCurrentIMU6Event(
                          [e EXCEPT !.temp = Temperature(raw)])
                 [] count = 10 ->
                      SetCurrentIMU6Event(
                          [e EXCEPT !.gyroX = Scaled(raw, imuGyroScale)])
                 [] count = 12 ->
                      SetCurrentIMU6Event(
                          [e EXCEPT !.gyroY = Scaled(raw, imuGyroScale)])
                 [] count = 14 ->
                      SetCurrentIMU6Event(
                          [e EXCEPT !.gyroZ = Scaled(raw, imuGyroScale)])
                 [] OTHER -> UNCHANGED currentIMU6Packet

\* Code 5: misc 8-bit data.  Sub-code 0 is an IMU data byte; a count of 0
\* (scale configuration missed) is treated as 1; at IMU6_COUNT the byte is
\* discarded.  Other sub-codes are logged and skipped.
Misc8(w) ==
    /\ ~IsTimestamp(w) /\ CodeOf(w) = 5
    /\ Fetch(w)
    /\ forcePacketCommit' = FALSE
    /\ LET misc8Code == (DataOf(w) \div 256) % 16
           misc8Data == DataOf(w) % 256
       IN IF misc8Code = 0
          THEN /\ LogIMUWord(w)
               /\ IF imuIgnoreEvents \/ imuCount >= IMU6_COUNT
                  THEN UNCHANGED <<imuCount, imuTmpData, currentIMU6Packet>>
                  ELSE LET count == IF imuCount = 0 THEN 1 ELSE imuCount
                       IN /\ IMUSample(count, misc8Data)
                          /\ imuCount' = count + 1
          ELSE UNCHANGED <<imuCount, imuTmpData, currentIMU6Packet, imuLog>>
    /\ UNCHANGED <<tsVars, dvsVars, apsVars, imuIgnoreEvents, polarityVars,
                   specialVars, frameVars, currentIMU6PacketPosition,
                   imuAccelScale, imuGyroScale, imuStartTimestamp>>
    /\ DecodeFrameCommon /\ UNCHANGED <<adcVars, resetPending>>
    /\ UNCHANGED <<tickVars, latchedTimestamp>>
    /\ Dispatch

\* ------------------------------------------------ translator: commit blocks
\* A commit that announces a packet it could not put.
ForwardAnnouncingDrops(packet) ==
    LET r == ringBufferPut(dataExchangeBuffer, packet)
    IN /\ dataExchangeBuffer' = r.rb
       /\ dataNotifyIncreased' = dataNotifyIncreased + 1
       /\ IF r.ok
          THEN putLog' = Append(putLog, packet.id) /\ UNCHANGED dropLog
          ELSE dropLog' = dropLog \cup {packet.id} /\ UNCHANGED putLog

\* ringBufferPut of a packet and what follows it: the data-available
\* notification when it was taken, free of the packet when it was not.
Forward(packet) ==
    LET r == ringBufferPut(dataExchangeBuffer, packet)
    IN /\ dataExchangeBuffer' = r.rb
       /\ IF r.ok
          THEN /\ putLog' = Append(putLog, packet.id)
               /\ dataNotifyIncreased' = dataNotifyIncreased + 1
               /\ UNCHANGED dropLog
          ELSE /\ dropLog' = dropLog \cup {packet.id}
               /\ UNCHANGED <<putLog, dataNotifyIncreased>>

\* The variables no commit block touches.
CommitFrame ==
    UNCHANGED <<cfgVars, tsVars, dvsVars, apsCurrentReadoutType, apsCountX,
                apsCountY, apsGlobalShutter, apsResetRead, apsRGBPixelOffset,
                apsRGBPixelOffsetDirection, bytesSent, nWords, event,
                forcePacketCommit, consumerVars, resetPending, tickVars,
                historyVars, adcVars, imuVars, lifeVars>>

NotForwarded ==
    UNCHANGED <<dataExchangeBuffer, producerLogVars, nAlloc>>

\* A polarity block that goes on filling the packet it has committed.
CommitPolarityPacketKeepingPacket ==
    /\ pc = "commitPolarity"
    /\ IF PolarityCommitDue
       THEN /\ Forward(currentPolarityPacket)
            /\ nAlloc' = nAlloc + 1
            /\ currentPolarityPacket' = currentPolarityPacket
            /\ currentPolarityPacketPosition' = 0
       ELSE NotForwarded /\ UNCHANGED polarityVars
    /\ UNCHANGED <<apsIgnoreEvents, imuIgnoreEvents, specialVars, frameVars,
                   imu6Vars>>
    /\ CommitFrame
    /\ pc' = BlockFrom(2)'

CommitPolarityPacket ==
    /\ pc = "commitPolarity"
    /\ IF PolarityCommitDue
       THEN /\ Forward(currentPolarityPacket)
            /\ nAlloc' = nAlloc + 1
            /\ currentPolarityPacket' =
                   caerPolarityEventPacketAllocate(nAlloc')
            /\ currentPolarityPacketPosition' = 0
       ELSE NotForwarded /\ UNCHANGED polarityVars
    /\ UNCHANGED <<apsIgnoreEvents, imuIgnoreEvents, specialVars, frameVars,
                   imu6Vars>>
    /\ CommitFrame
    /\ pc' = BlockFrom(2)'

\* A frame block that does not make the translator skip the rest of the
\* frame under way.
CommitFramePacketWithoutIgnoring ==
    /\ pc = "commitFrame"
    /\ IF FrameCommitDue
       THEN /\ Forward(currentFramePacket)
            /\ nAlloc' = nAlloc + 1
            /\ currentFramePacket' = caerFrameEventPacketAllocate(nAlloc')
            /\ currentFramePacketPosition' = 0
            /\ UNCHANGED apsIgnoreEvents
       ELSE NotForwarded /\ UNCHANGED <<frameVars, apsIgnoreEvents>>
    /\ UNCHANGED <<imuIgnoreEvents, polarityVars, specialVars, imu6Vars>>
    /\ CommitFrame
    /\ pc' = BlockFrom(3)'

CommitFramePacket ==
    /\ pc = "commitFrame"
    /\ IF FrameCommitDue
       THEN /\ Forward(currentFramePacket)
            /\ nAlloc' = nAlloc + 1
            /\ currentFramePacket' = caerFrameEventPacketAllocate(nAlloc')
            /\ currentFramePacketPosition' = 0
            /\ apsIgnoreEvents' = TRUE
       ELSE NotForwarded /\ UNCHANGED <<frameVars, apsIgnoreEvents>>
    /\ UNCHANGED <<imuIgnoreEvents, polarityVars, specialVars, imu6Vars>>
    /\ CommitFrame
    /\ pc' = BlockFrom(3)'

CommitIMU6Packet ==
    /\ pc = "commitIMU6"
    /\ IF IMU6CommitDue
       THEN /\ Forward(currentIMU6Packet)
            /\ nAlloc' = nAlloc + 1
            /\ currentIMU6Packet' = caerIMU6EventPacketAllocate(nAlloc')
            /\ currentIMU6PacketPosition' = 0
            /\ imuIgnoreEvents' = TRUE
       ELSE NotForwarded /\ UNCHANGED <<imu6Vars, imuIgnoreEvents>>
    /\ UNCHANGED <<apsIgnoreEvents, polarityVars, specialVars, frameVars>>
    /\ CommitFrame
    /\ pc' = BlockFrom(4)'

RetrySpecialNever == FALSE
\* Whether a special packet whose put failed is put again (retry_special)
\* instead of being dropped.
RetrySpecial == forcePacketCommit

\* The special block ends the iteration.  A failed put of a forced commit
\* jumps back to retry_special: the state is unchanged and the block runs
\* again.
CommitSpecialPacket ==
    /\ pc = "commitSpecial"
    /\ IF SpecialCommitDue
       THEN IF ~ringBufferPut(dataExchangeBuffer, currentSpecialPacket).ok
                   /\ RetrySpecial
            THEN UNCHANGED <<pc, dataExchangeBuffer, producerLogVars, nAlloc,
                             specialVars>>
            ELSE /\ pc' = "decode"
                 /\ Forward(currentSpecialPacket)
                 /\ nAlloc' = nAlloc + 1
                 /\ currentSpecialPacket' =
                        caerSpecialEventPacketAllocate(nAlloc')
                 /\ currentSpecialPacketPosition' = 0
       ELSE pc' = "decode" /\ NotForwarded /\ UNCHANGED specialVars
    /\ UNCHANGED <<apsIgnoreEvents, imuIgnoreEvents, polarityVars, frameVars,
                   imu6Vars>>
    /\ CommitFrame

\* ------------------------------------------------------------- consumer
\* A Get that jumps back to retry after it found a container, and returns
\* what the second ringBufferGet found.
davisCommonDataGetRetriesAfterSuccess ==
    LET r1 == ringBufferGet(dataExchangeBuffer)
        r == IF r1.elem # NULL /\ r1.rb.elems # <<>>
             THEN ringBufferGet(r1.rb) ELSE r1
    IN /\ dataExchangeBuffer' = r.rb
       /\ container' = r.elem
       /\ IF r.elem # NULL
          THEN /\ dataNotifyDecreased' = dataNotifyDecreased + 1
               /\ getLog' = Append(getLog, r.elem.id)
               /\ containerAfterReset' = resetPending
               /\ resetPending' = FALSE
          ELSE /\ UNCHANGED <<dataNotifyDecreased, getLog, resetPending>>
               /\ containerAfterReset' = FALSE
       /\ UNCHANGED <<cfgVars, tsVars, dvsVars, apsVars, imuIgnoreEvents,
                      polarityVars, specialVars, frameVars, imu6Vars,
                      bytesSent, nWords, pc, event, forcePacketCommit, nAlloc,
                      producerLogVars, tickVars, historyVars,
                      adcVars, imuVars, lifeVars>>

\* davisCommonDataGet with dataExchangeBlocking off: one ringBufferGet; a
\* container is announced with dataNotifyDecrease and returned, else NULL.
davisCommonDataGet ==
    LET r == ringBufferGet(dataExchangeBuffer)
    IN /\ dataExchangeBuffer' = r.rb
       /\ container' = r.elem
       /\ IF r.elem # NULL
          THEN /\ dataNotifyDecreased' = dataNotifyDecreased + 1
               /\ getLog' = Append(getLog, r.elem.id)
               /\ containerAfterReset' = resetPending
               /\ resetPending' = FALSE
          ELSE /\ UNCHANGED <<dataNotifyDecreased, getLog, resetPending>>
               /\ containerAfterReset' = FALSE
       /\ UNCHANGED <<cfgVars, tsVars, dvsVars, apsVars, imuIgnoreEvents,
                      polarityVars, specialVars, frameVars, imu6Vars,
                      bytesSent, nWords, pc, event, forcePacketCommit, nAlloc,
                      producerLogVars, tickVars, historyVars,
                      adcVars, imuVars, lifeVars>>

\* davisCommonDataGet in either mode, as the two steps of a call.  The
\* consumer enters the function.
GetFrame ==
    UNCHANGED <<cfgVars, tsVars, dvsVars, apsVars, imuIgnoreEvents,
                polarityVars, specialVars, frameVars, imu6Vars, bytesSent,
                nWords, pc, event, forcePacketCommit, nAlloc,
                producerLogVars, tickVars, historyVars, adcVars, imuVars,
                dataAcquisitionThreadRun, transferVars,
                currentPacketContainer, freedPackets, startFailure>>

davisCommonDataGetEnter ==
    /\ appPc = "started"
    /\ appPc' = "getting"
    /\ UNCHANGED <<dataExchangeBuffer, consumerVars, resetPending>>
    /\ GetFrame

\* An empty buffer ends the call whatever the blocking setting is.
GetGivesUpAlways == TRUE

\* With an empty buffer the call ends unless dataExchangeBlocking is set.
GetGivesUp == ~dataExchangeBlocking

\* One round from the label retry: ringBufferGet; a container is announced
\* with dataNotifyDecrease and returned; without one the function jumps
\* back to retry or returns NULL.
davisCommonDataGetRetry ==
    LET r == ringBufferGet(dataExchangeBuffer)
    IN /\ appPc = "getting"
       /\ dataExchangeBuffer' = r.rb
       /\ IF r.elem # NULL
          THEN /\ dataNotifyDecreased' = dataNotifyDecreased + 1
               /\ getLog' = Append(getLog, r.elem.id)
               /\ container' = r.elem
               /\ containerAfterReset' = resetPending
               /\ resetPending' = FALSE
               /\ appPc' = "started"
          ELSE /\ UNCHANGED <<dataNotifyDecreased, getLog, resetPending>>
               /\ IF GetGivesUp
                  THEN /\ container' = NULL
                       /\ containerAfterReset' = FALSE
                       /\ appPc' = "started"
                  ELSE UNCHANGED <<container, containerAfterReset, appPc>>
       /\ GetFrame

\* ------------------------------------------------------------ initial state
ExchangeBufferOneTooLarge == ringBufferInit(DataExchangeBufferSize + 1)
\* davisCommonDataStart: the exchange buffer is created with the configured
\* size.
ExchangeBufferAtStart == ringBufferInit(DataExchangeBufferSize)

\* The translator state when streaming starts, for a stream of n words.
\* apsGlobalShutter and apsResetRead are read from the device at start and
\* are set by each specification.
\* apsOrientationInfo of a sensor mounted upright.
ApsOrientationUpright ==
    apsInvertXY = FALSE /\ apsFlipX = FALSE /\ apsFlipY = FALSE

\* A device that davisOpen has opened, and no control transfer under way.
DeviceOpened ==
    /\ openPc = "opened" /\ handleMemory = "allocated"
    /\ deviceHandle = "open" /\ deviceContext = "initialized"
    /\ logicVersion = 1 /\ requiredLogicRevision = 1
    /\ serialNumber = "A" /\ serialNumberRestrict = ""
    /\ handleReadAfterFree = FALSE
ControlIdle ==
    /\ spiParam = 0 /\ spiConfig = <<0, 0, 0, 0>> /\ returnedParam = 0
    /\ spiPc = "idle"

\* The translator state of a handle that calloc has zeroed.
HandleZeroed ==
    /\ wrapAdd = 0 /\ lastTimestamp = 0 /\ currentTimestamp = 0
    /\ dvsTimestamp = 0 /\ dvsGotY = FALSE /\ dvsLastY = 0
    /\ apsCurrentReadoutType = APS_READOUT_RESET
    /\ apsCountX = [j \in 0 .. APS_READOUT_TYPES_NUM - 1 |-> 0]
    /\ apsCountY = [j \in 0 .. APS_READOUT_TYPES_NUM - 1 |-> 0]
    /\ apsIgnoreEvents = FALSE
    /\ apsRGBPixelOffset = 0 /\ apsRGBPixelOffsetDirection = 0
    /\ heapCorrupted = FALSE
    /\ imuIgnoreEvents = FALSE
    /\ imuCount = 0 /\ imuTmpData = 0
    /\ imuAccelScale = calculateIMUAccelScale(0)
    /\ imuGyroScale = calculateIMUGyroScale(0)
    /\ imuLog = <<>> /\ imuStartTimestamp = 0
    /\ currentPolarityPacketPosition = 0
    /\ currentSpecialPacketPosition = 0
    /\ currentFramePacketPosition = 0
    /\ currentIMU6PacketPosition = 0
    /\ nWords = 0
    /\ pc = "decode" /\ event = 0 /\ forcePacketCommit = FALSE
    /\ container = NULL
    /\ resetPending = FALSE /\ containerAfterReset = FALSE
    /\ putLog = <<>> /\ getLog = <<>> /\ dropLog = {}
    /\ dataNotifyIncreased = 0 /\ dataNotifyDecreased = 0
    /\ devWraps = 0 /\ tickLog = <<>>
    /\ prevEvent = 0 /\ latchedTimestamp = 0

\* The decoder state of a handle that davisOpen has zeroed and filled in.
DecoderAtOpen == HandleZeroed /\ DeviceOpened /\ ControlIdle

ResetFrameAtStart == [p \in 0 .. ApsSizeX * ApsSizeY - 1 |-> 0]

\* Streaming: Start has succeeded and the callback of a completed transfer of
\* n words is about to run the translator.
HandleAtStart(n) ==
    /\ DecoderAtOpen
    /\ apsCurrentResetFrame = ResetFrameAtStart
    /\ currentPolarityPacket = caerPolarityEventPacketAllocate(1)
    /\ currentSpecialPacket = caerSpecialEventPacketAllocate(2)
    /\ currentFramePacket = caerFrameEventPacketAllocate(3)
    /\ currentIMU6Packet = caerIMU6EventPacketAllocate(4)
    /\ nAlloc = 4
    /\ dataExchangeBuffer = ExchangeBufferAtStart
    /\ bytesSent = 2 * n
    /\ appPc = "started" /\ dataAcquisitionThreadRun = TRUE
    /\ workerPc = "callback" /\ cancelIndex = 0 /\ callbackTransfer = 1
    /\ dataTransfers = <<"completed">> /\ activeDataTransfers = 1
    /\ transferFailed = FALSE
    /\ currentPacketContainer = TRUE
    /\ freedPackets = {} /\ startFailure = "none"

\* Streaming with the blocking setting davisOpen stores.
\* The payloads are not observed: the stream is the words the translator
\* is given.
PayloadsUnobserved ==
    /\ usbPayloads = <<>> /\ completedPayloads = <<>> /\ buffer = <<>>
    /\ splitResult = <<>>

StreamingAtStart(n) == HandleAtStart(n) /\ PayloadsUnobserved

InitStreaming(n) == StreamingAtStart(n) /\ dataExchangeBlocking = FALSE

\* ---------------------------------------------------------- specifications
\* Exchange between the translator and the consumer: timestamps, external
\* input, DVS addresses and timestamp resets on the wire.
Words ==
    {TimestampWordOf(16), TimestampWordOf(64), EventWordOf(0, 1),
     EventWordOf(0, 2), EventWordOf(1, 0), EventWordOf(1, DvsSizeY - 1),
     EventWordOf(1, DvsSizeY), EventWordOf(3, 0)}

Init ==
    /\ chipID = "DAVIS240" /\ dvsInvertXY = FALSE
    /\ ApsOrientationUpright
    /\ apsGlobalShutter = TRUE /\ apsResetRead = TRUE
    /\ InitStreaming(MaxWords)

Next ==
    \/ \E w \in Words : TimestampWord(w)
    \/ \E w \in Words : TimestampReset(w)
    \/ \E w \in Words : ExternalInput(w)
    \/ \E w \in Words : YAddress(w)
    \/ \E w \in Words : XAddress(w)
    \/ CommitPolarityPacket
    \/ CommitFramePacket
    \/ CommitIMU6Packet
    \/ CommitSpecialPacket
    \/ davisCommonDataGet

Spec == Init /\ [][Next]_vars

\* Timestamp resets under backpressure: only special events on the wire.
\* The consumer keeps calling Get, and the USB thread keeps running the
\* callback it is in.
ResetWords == {EventWordOf(0, 1), EventWordOf(0, 2)}

ResetNext ==
    \/ \E w \in ResetWords : TimestampReset(w)
    \/ \E w \in ResetWords : ExternalInput(w)
    \/ CommitPolarityPacket
    \/ CommitFramePacket
    \/ CommitIMU6Packet
    \/ CommitSpecialPacket
    \/ davisCommonDataGet

FairResetSpec ==
    /\ Init
    /\ [][ResetNext]_vars
    /\ WF_vars(davisCommonDataGet)
    /\ WF_vars(CommitPolarityPacket)
    /\ WF_vars(CommitFramePacket)
    /\ WF_vars(CommitIMU6Packet)
    /\ WF_vars(CommitSpecialPacket)

\* Timestamp reconstruction: a device whose clock only moves forward sends
\* timestamp words and, each time its 15-bit tick counter rolls over, wrap
\* words that carry the number of rollovers.  No timestamp reset.
TsTicks == {0, 5, 32767}
TsMultipliers == {4095}

LastTwo(q) == IF Len(q) > 2 THEN Tail(q) ELSE q

\* The tick does not go back unless the counter rolled over in between.
DeviceTick(tick) ==
    /\ tickLog # <<>> /\ tickLog[Len(tickLog)].wraps = devWraps
           => tick >= tickLog[Len(tickLog)].tick
    /\ TimestampWordStep(TimestampWordOf(tick))
    /\ Dispatch
    /\ tickLog' = LastTwo(Append(tickLog, [wraps |-> devWraps, tick |-> tick,
                                           timestamp |-> currentTimestamp']))
    /\ UNCHANGED <<devWraps, latchedTimestamp>>

DeviceWrap(multiplier) ==
    /\ TimestampWrapStep(EventWordOf(7, multiplier))
    /\ Dispatch
    /\ devWraps' = devWraps + multiplier
    /\ UNCHANGED <<tickLog, latchedTimestamp>>

TsInit ==
    /\ chipID = "DAVIS240" /\ dvsInvertXY = FALSE
    /\ ApsOrientationUpright
    /\ apsGlobalShutter = TRUE /\ apsResetRead = TRUE
    /\ InitStreaming(MaxTsWords)

TsNext ==
    \/ \E tick \in TsTicks : DeviceTick(tick)
    \/ \E multiplier \in TsMultipliers : DeviceWrap(multiplier)

TsSpec == TsInit /\ [][TsNext]_vars

\* DVS address words: Y and X addresses on both sides of their range checks
\* and of the high-gain column boundary, and timestamp words, on each chip
\* family and orientation.
DvsTicks == {16, 64}
YAddresses == {0, DvsSizeY - 1, DvsSizeY}
XAddresses == {HighGainColumns - 1, HighGainColumns, DvsSizeX}
DvsWords ==
    {TimestampWordOf(t) : t \in DvsTicks}
        \cup {EventWordOf(1, y) : y \in YAddresses}
        \cup {EventWordOf(c, x) : c \in {2, 3}, x \in XAddresses}

DvsInit ==
    /\ chipID \in {"DAVIS208", "DAVIS240"} /\ dvsInvertXY \in BOOLEAN
    /\ ApsOrientationUpright
    /\ apsGlobalShutter = TRUE /\ apsResetRead = TRUE
    /\ InitStreaming(MaxWords)

DvsNext ==
    \/ \E w \in DvsWords : TimestampWord(w)
    \/ \E w \in DvsWords : YAddress(w)
    \/ \E w \in DvsWords : XAddress(w)
    \/ CommitPolarityPacket
    \/ CommitSpecialPacket
    \/ davisCommonDataGet

DvsSpec == DvsInit /\ [][DvsNext]_vars

\* APS readout control words: frame starts with and without reset read,
\* column starts of both readouts, column ends and frame ends, for each
\* shutter and reset-read configuration read from the device at start.
ApsWords == {EventWordOf(0, d) : d \in {8, 15, 10, 11, 12, 13}}

ApsInit ==
    /\ chipID = "DAVIS240" /\ dvsInvertXY = FALSE
    /\ ApsOrientationUpright
    /\ apsGlobalShutter \in BOOLEAN /\ apsResetRead \in BOOLEAN
    /\ InitStreaming(MaxApsWords)

ApsNext ==
    \/ \E w \in ApsWords : APSFrameStart(w)
    \/ \E w \in ApsWords : APSColumnStart(w)
    \/ \E w \in ApsWords : APSColumnEnd(w)
    \/ \E w \in ApsWords : APSFrameEnd(w)
    \/ CommitFramePacket
    \/ davisCommonDataGet

ApsSpec == ApsInit /\ [][ApsNext]_vars

\* ADC samples of both readouts between the column control words of a
\* global-shutter frame with reset read, on a chip other than the DAVISRGB,
\* for each mirroring of the sensor.
AdcSamples == {0, 1, 1023, 1024, 4095}
AdcWords ==
    {EventWordOf(0, d) : d \in {8, 11, 12, 13}}
        \cup {EventWordOf(4, v) : v \in AdcSamples}

AdcInit ==
    /\ chipID = "DAVIS240" /\ dvsInvertXY = FALSE
    /\ apsInvertXY = FALSE /\ apsFlipX \in BOOLEAN /\ apsFlipY \in BOOLEAN
    /\ apsGlobalShutter = TRUE /\ apsResetRead = TRUE
    /\ InitStreaming(MaxAdcWords)

AdcNext ==
    \/ \E w \in AdcWords : APSFrameStart(w)
    \/ \E w \in AdcWords : APSColumnStart(w)
    \/ \E w \in AdcWords : APSColumnEnd(w)
    \/ \E w \in AdcWords : ADCSample(w)

AdcSpec == AdcInit /\ [][AdcNext]_vars

\* Packet aging with a consumer that does not call Get: two timestamp words
\* one interval and one interval less one after the start, external input, a
\* DVS row and column, a frame start without reset read, a frame end and a
\* timestamp reset.
CommitTicks == {MaxSpecialPacketInterval - 1, MaxSpecialPacketInterval}
CommitWords ==
    {TimestampWordOf(t) : t \in CommitTicks}
        \cup {EventWordOf(0, d) : d \in {1, 2, 10, 15}}
        \cup {EventWordOf(1, 0), EventWordOf(3, 0)}

CommitInit ==
    /\ chipID = "DAVIS240" /\ dvsInvertXY = FALSE
    /\ ApsOrientationUpright
    /\ apsGlobalShutter = TRUE /\ apsResetRead = TRUE
    /\ InitStreaming(MaxCommitWords)

CommitNext ==
    \/ \E w \in CommitWords : TimestampWord(w)
    \/ \E w \in CommitWords : TimestampReset(w)
    \/ \E w \in CommitWords : ExternalInput(w)
    \/ \E w \in CommitWords : YAddress(w)
    \/ \E w \in CommitWords : XAddress(w)
    \/ \E w \in CommitWords : APSFrameStart(w)
    \/ \E w \in CommitWords : APSFrameEnd(w)
    \/ CommitPolarityPacket
    \/ CommitFramePacket
    \/ CommitIMU6Packet
    \/ CommitSpecialPacket

CommitSpec == CommitInit /\ [][CommitNext]_vars

\* ------------------------------------------------------------------ claims
HasValid(packet, n) == n < packet.capacity /\ packet.events[n].valid
IsResetEvent(e) == e.valid /\ e.type = "TIMESTAMP_RESET"
HasReset(packet) ==
    /\ packet.type = "SPECIAL"
    /\ \E n \in 0 .. packet.capacity - 1 : IsResetEvent(packet.events[n])
\* The reset event of a packet is its last event.
ResetIsLast(packet) ==
    packet.type = "SPECIAL" =>
        \A n \in 0 .. packet.capacity - 1 :
            IsResetEvent(packet.events[n]) =>
                \A m \in n + 1 .. packet.capacity - 1 :
                    ~packet.events[m].valid
QueuedPackets ==
    {dataExchangeBuffer.elems[i] : i \in 1 .. Len(dataExchangeBuffer.elems)}
PacketIds(q) == [i \in 1 .. Len(q) |-> q[i].id]
SeqRange(q) == {q[i] : i \in 1 .. Len(q)}

\* C1 (as stated): the first item the consumer obtains after a
\* TIMESTAMP_RESET was decoded holds the reset event and no event that
\* precedes the reset.
C1_NextItemIsTheReset ==
    containerAfterReset =>
        /\ HasReset(container)
        /\ Len(ValidEvents(container)) = 1

\* C1 (amended): the special packet committed by the word that carries the
\* TIMESTAMP_RESET is enqueued at the tail of the exchange buffer, behind
\* whatever was put before it, with the reset event as its last event (the
\* special events decoded before the reset precede it in the same packet);
\* that iteration leaves all four fill positions at zero, and in every packet
\* a reset event is the last event.
C1_ResetClosesItsPacket ==
    /\ [](\A p \in QueuedPackets \cup {currentSpecialPacket, container} :
              ResetIsLast(p))
    /\ [][(pc = "commitSpecial" /\ pc' = "decode" /\ event = EventWordOf(0, 1))
            => /\ dataExchangeBuffer'.elems =
                      Append(dataExchangeBuffer.elems, currentSpecialPacket)
               /\ IsResetEvent(GetEvent(currentSpecialPacket,
                                        currentSpecialPacketPosition - 1))
               /\ currentPolarityPacketPosition' = 0
               /\ currentFramePacketPosition' = 0
               /\ currentIMU6PacketPosition' = 0
               /\ currentSpecialPacketPosition' = 0]_vars

\* C1 witness: a reset packet that also holds an earlier special event sits at
\* the tail of the buffer behind another item.
C1_Witness ==
    /\ Len(dataExchangeBuffer.elems) >= 2
    /\ LET p == dataExchangeBuffer.elems[Len(dataExchangeBuffer.elems)]
       IN /\ HasReset(p)
          /\ Len(ValidEvents(p)) = 2
          /\ IsResetEvent(p.events[1])

\* C2: a special packet committed by a TIMESTAMP_RESET is never dropped: on a
\* full buffer the put is repeated until it succeeds, and a consumer that
\* keeps calling Get obtains every packet that was put, so the reset is
\* delivered; a special packet committed for another reason on a full buffer
\* is dropped and the buffer is left as it was.
C2_ResetPacketIsDelivered ==
    /\ [][(pc = "commitSpecial" /\ forcePacketCommit)
            => /\ dropLog' = dropLog
               /\ pc' = "decode" =>
                      /\ putLog' = Append(putLog, currentSpecialPacket.id)
                      /\ HasReset(currentSpecialPacket)]_vars
    /\ [][(pc = "commitSpecial" /\ pc' = "decode" /\ ~forcePacketCommit
             /\ ringBufferFull(dataExchangeBuffer))
            => /\ dropLog' = dropLog \cup {currentSpecialPacket.id}
               /\ dataExchangeBuffer' = dataExchangeBuffer
               /\ putLog' = putLog]_vars
    /\ (pc = "commitSpecial" /\ forcePacketCommit) ~> (pc = "decode")
    /\ <>[](getLog = putLog)

\* C2 witness: the translator is at retry_special with a reset packet and a
\* full buffer, after another special packet was dropped on a full buffer.
C2_Witness ==
    /\ pc = "commitSpecial" /\ forcePacketCommit
    /\ ringBufferFull(dataExchangeBuffer)
    /\ HasReset(currentSpecialPacket)
    /\ \E id \in dropLog : id > 4 /\ id % 4 = 2

\* C3: the exchange buffer never holds more than the configured
\* dataExchangeBufferSize entries; a commit that finds it full leaves its
\* contents unchanged, announces nothing and frees the packet.
C3_BufferWithinCapacity ==
    /\ [](Len(dataExchangeBuffer.elems) <= DataExchangeBufferSize)
    /\ [][(nAlloc' # nAlloc
             /\ Len(dataExchangeBuffer.elems) >= DataExchangeBufferSize)
            => /\ dataExchangeBuffer' = dataExchangeBuffer
               /\ putLog' = putLog
               /\ dataNotifyIncreased' = dataNotifyIncreased
               /\ Cardinality(dropLog') = Cardinality(dropLog) + 1]_vars

\* C3 witness: the buffer is full and a packet was refused.
C3_Witness ==
    /\ Len(dataExchangeBuffer.elems) = DataExchangeBufferSize
    /\ dropLog # {}

\* C4: the packets whose put succeeded are, in the order of the puts, the
\* packets Get has returned followed by the packets still queued, each once;
\* a refused packet is never among them.
C4_FifoExactlyOnce ==
    /\ getLog \o PacketIds(dataExchangeBuffer.elems) = putLog
    /\ \A i, j \in 1 .. Len(putLog) : i # j => putLog[i] # putLog[j]
    /\ dropLog \cap SeqRange(putLog) = {}
    /\ container # NULL => container.id = getLog[Len(getLog)]

\* C4 witness: two packets were returned and another is queued.
C4_Witness ==
    /\ Len(getLog) >= 2
    /\ Len(dataExchangeBuffer.elems) >= 1
    /\ container # NULL

\* C5: on a stream without device-originated disorder the values taken by
\* currentTimestamp never decrease (lastTimestamp is the value before the
\* last update).
C5_TimestampsNonDecreasing == currentTimestamp >= lastTimestamp

\* C6: at every timestamp word the reconstructed currentTimestamp is the
\* device time (rollovers * 0x8000 + tick), so that differences are the
\* intended deltas, and it is greater than the one reconstructed at the
\* previous timestamp word when the device clock advanced in between.
C6_RoundTrip ==
    tickLog # <<>> =>
        LET now == tickLog[Len(tickLog)]
        IN /\ now.timestamp >= 0
           /\ now.timestamp \div 32768 = now.wraps
           /\ now.timestamp % 32768 = now.tick
           /\ Len(tickLog) = 2
                 /\ (tickLog[1].wraps < now.wraps
                       \/ tickLog[1].tick < now.tick)
                 => now.timestamp > tickLog[1].timestamp

DecodeStep == nWords' = nWords + 1
IsYWord(w) == ~IsTimestamp(w) /\ CodeOf(w) = 1
IsXWord(w) == ~IsTimestamp(w) /\ CodeOf(w) \in {2, 3}
IsResetWord(w) == ~IsTimestamp(w) /\ CodeOf(w) = 0 /\ DataOf(w) = 1
PolarityEmitted ==
    currentPolarityPacketPosition' = currentPolarityPacketPosition + 1
EmittedPolarity ==
    GetEvent(currentPolarityPacket', currentPolarityPacketPosition)
SpecialEmitted ==
    currentSpecialPacketPosition' = currentSpecialPacketPosition + 1
EmittedSpecial ==
    GetEvent(currentSpecialPacket', currentSpecialPacketPosition)

YAccepted == IsYWord(event') /\ DataOf(event') < DvsSizeY
RowOnlyEmitted == SpecialEmitted /\ EmittedSpecial.type = "DVS_ROW_ONLY"

\* C8 as stated: an in-range Y address that finds the latch set emits one
\* DVS_ROW_ONLY event carrying the previously latched Y and the timestamp
\* captured at that previous Y; no other word emits one.
C8_RowOnlyAtCapturedTimestamp ==
    [][DecodeStep =>
           IF YAccepted /\ dvsGotY
           THEN /\ RowOnlyEmitted /\ EmittedSpecial.valid
                /\ EmittedSpecial.data = dvsLastY
                /\ EmittedSpecial.timestamp = latchedTimestamp
           ELSE ~RowOnlyEmitted]_vars

\* C8 amended: the DVS_ROW_ONLY event carries the previously latched Y and
\* dvsTimestamp, which is the currentTimestamp captured at the previous Y
\* unless a timestamp reset was decoded since, which sets it to zero and
\* leaves the latch set; no other word emits a DVS_ROW_ONLY event.
C8_RowOnlyAtDvsTimestamp ==
    /\ [][RowOnlyEmitted => DecodeStep]_vars
    /\ [][DecodeStep =>
              IF YAccepted /\ dvsGotY
              THEN /\ RowOnlyEmitted /\ EmittedSpecial.valid
                   /\ EmittedSpecial.data = dvsLastY
                   /\ EmittedSpecial.timestamp = dvsTimestamp
              ELSE ~RowOnlyEmitted]_vars
    /\ [][DecodeStep =>
              dvsTimestamp' = IF YAccepted THEN currentTimestamp
                              ELSE IF IsResetWord(event') THEN 0
                              ELSE dvsTimestamp]_vars
    /\ [][DecodeStep /\ IsResetWord(event') => dvsGotY' = dvsGotY]_vars
    /\ [][YAccepted /\ DecodeStep => latchedTimestamp' = currentTimestamp]_vars

\* A Y address right after a timestamp reset finds the latch still set by
\* the Y address before the reset: the row-only event is stamped zero.
C8_Witness ==
    /\ IsYWord(event) /\ DataOf(event) < DvsSizeY
    /\ IsResetWord(prevEvent)
    /\ pc = "decode" /\ currentSpecialPacketPosition = 1
    /\ GetEvent(currentSpecialPacket, 0).valid
    /\ GetEvent(currentSpecialPacket, 0).type = "DVS_ROW_ONLY"
    /\ GetEvent(currentSpecialPacket, 0).data = DvsSizeY - 1
    /\ GetEvent(currentSpecialPacket, 0).timestamp = 0

S1 ==
    /\ DecodeStep
    /\ IsYWord(prevEvent) /\ DataOf(prevEvent) < DvsSizeY
    /\ IsTimestamp(event)
    /\ IsXWord(event') /\ DataOf(event') < DvsSizeX

\* C9 as stated: in-range Y address y, timestamp word with tick t, in-range
\* X address x emits one polarity event (x, y) with the polarity of the X
\* word and the timestamp of the timestamp word (on a chip without high-gain
\* columns, in the default orientation).
C9_StampedByTheTimestampWord ==
    [][S1 /\ chipID # "DAVIS208" /\ ~dvsInvertXY =>
           /\ PolarityEmitted /\ EmittedPolarity.valid
           /\ EmittedPolarity.x = DataOf(event')
           /\ EmittedPolarity.y = DataOf(prevEvent)
           /\ EmittedPolarity.polarity = CodeOf(event') % 2
           /\ EmittedPolarity.timestamp = currentTimestamp]_vars

\* C9 amended: the one polarity event carries the timestamp that was current
\* when the Y address arrived, not that of the timestamp word after it; the
\* coordinates are (x, y), swapped when dvsInvertXY; the polarity is that of
\* the X word, inverted for columns below 192 of the DAVIS208.
C9_StampedAtTheYAddress ==
    [][S1 =>
           /\ PolarityEmitted /\ EmittedPolarity.valid
           /\ EmittedPolarity.x =
                  (IF dvsInvertXY THEN DataOf(prevEvent) ELSE DataOf(event'))
           /\ EmittedPolarity.y =
                  (IF dvsInvertXY THEN DataOf(event') ELSE DataOf(prevEvent))
           /\ EmittedPolarity.polarity =
                  (IF chipID = "DAVIS208" /\ DataOf(event') < 192
                   THEN 1 - (CodeOf(event') % 2) ELSE CodeOf(event') % 2)
           /\ EmittedPolarity.timestamp = latchedTimestamp
           /\ latchedTimestamp = lastTimestamp]_vars

\* S1 as the whole stream: Y, timestamp word, X; the event's timestamp is
\* the zero of the Y address, not the tick.
C9_Witness ==
    /\ nWords = 3 /\ IsXWord(event) /\ IsTimestamp(prevEvent)
    /\ dvsLastY = DvsSizeY - 1
    /\ currentPolarityPacketPosition = 1
    /\ GetEvent(currentPolarityPacket, 0).valid
    /\ GetEvent(currentPolarityPacket, 0).timestamp = 0
    /\ currentTimestamp = TickOf(prevEvent)

IsFrameEndWord(w) == ~IsTimestamp(w) /\ CodeOf(w) = 0 /\ DataOf(w) = 10
FrameEnded ==
    currentFramePacketPosition' = currentFramePacketPosition + 1
EndedFrame == GetEvent(currentFramePacket', currentFramePacketPosition)

\* A frame start has initialised the current frame slot.
FrameStarted == CurrentFrameEvent.lengthX = ApsWindow0SizeX

\* C10 as stated: at a frame end that is not ignored and closes a started
\* frame, whatever column words came since the frame start, the frame is valid
\* exactly when the column count of every enabled readout equals the width,
\* the reset readout being enabled when reset reads are.
C10_ValidIffEnabledReadoutsComplete ==
    [][/\ DecodeStep /\ IsFrameEndWord(event') /\ ~apsIgnoreEvents
       /\ FrameStarted
       =>  /\ FrameEnded
           /\ EndedFrame.valid <=>
                  /\ apsCountX[APS_READOUT_SIGNAL] = CurrentFrameEvent.lengthX
                  /\ apsResetRead =>
                         apsCountX[APS_READOUT_RESET]
                             = CurrentFrameEvent.lengthX]_vars

\* C10 amended: the frame is valid exactly when the signal readout counted
\* width columns and the reset readout counted width columns with reset reads
\* enabled, zero columns with reset reads disabled; an ignored frame end
\* leaves the frame packet alone.
C10_ValidIffCountsMatch ==
    /\ [][FrameEnded => DecodeStep /\ IsFrameEndWord(event')]_vars
    /\ [][DecodeStep /\ IsFrameEndWord(event') =>
              IF apsIgnoreEvents
              THEN UNCHANGED frameVars
              ELSE /\ FrameEnded
                   /\ EndedFrame.lengthX = CurrentFrameEvent.lengthX
                   /\ EndedFrame.valid <=>
                          /\ apsCountX[APS_READOUT_SIGNAL]
                                 = CurrentFrameEvent.lengthX
                          /\ apsCountX[APS_READOUT_RESET]
                                 = (IF apsResetRead
                                    THEN CurrentFrameEvent.lengthX
                                    ELSE 0)]_vars

\* A frame without reset read ends with all its signal columns read and a
\* column counted for the reset readout: it is not validated.
C10_Witness ==
    /\ IsFrameEndWord(event) /\ pc = "decode"
    /\ ~apsResetRead /\ ~apsIgnoreEvents
    /\ apsCountX[APS_READOUT_RESET] > 0
    /\ apsCountX[APS_READOUT_SIGNAL] = ApsWindow0SizeX
    /\ currentFramePacketPosition = 1
    /\ GetEvent(currentFramePacket, 0).lengthX = ApsWindow0SizeX
    /\ ~GetEvent(currentFramePacket, 0).valid

IsADCWord(w) == ~IsTimestamp(w) /\ CodeOf(w) = 4
\* The sample is a signal sample taken into the frame at a pixel of the frame
\* whose reset sample is in the staging buffer.
SignalSampleTaken ==
    /\ DecodeStep /\ IsADCWord(event')
    /\ ~apsIgnoreEvents
    /\ apsCountY[apsCurrentReadoutType] < CurrentFrameEvent.lengthY
    /\ apsCurrentReadoutType = APS_READOUT_SIGNAL
    /\ PixelPosition \in DOMAIN CurrentFrameEvent.pixels
    /\ PixelPositionAbs \in DOMAIN apsCurrentResetFrame

\* C11: for every reset sample R and signal sample S of the 12-bit data
\* field, on a chip other than the DAVISRGB, the pixel stored in the frame is
\* (R - S) << 6 when R >= S and 0 when R < S.
C11_PixelIsShiftedDifference ==
    [][SignalSampleTaken /\ chipID # "DAVISRGB" =>
           LET R == apsCurrentResetFrame[PixelPositionAbs]
               S == DataOf(event')
               pixel ==
                   GetEvent(currentFramePacket',
                            currentFramePacketPosition).pixels[PixelPosition]
           IN pixel = IF R >= S THEN (R - S) * 64 ELSE 0]_vars

\* The timestamp span of the events written to a packet so far: from event 0
\* to the last one (frames are aged by their start of exposure).
StampOf(e) ==
    IF "tsStartOfExposure" \in DOMAIN e THEN e.tsStartOfExposure
    ELSE e.timestamp
SpanOf(packet, position) ==
    StampOf(packet.events[position - 1]) - StampOf(packet.events[0])
\* The packet of a modality was handed to the exchange buffer or dropped, and
\* a new one took its place.
Replaced(old, new) == new.id # old.id
SpanExceeds(packet, position, interval) ==
    position >= 1 /\ SpanOf(packet, position) > interval
SpanReaches(packet, position, interval) ==
    position > 1 /\ SpanOf(packet, position) >= interval
Filled(packet, position) == position >= packet.capacity

\* C12 (as stated): a modality's packet is committed only when the force flag
\* is set, or its fill position reached capacity, or the span from event 0 to
\* the last event exceeds the modality's interval.
C12_CommittedOnlyWhenSpanExceeds ==
    [][/\ Replaced(currentPolarityPacket, currentPolarityPacket')
            => \/ forcePacketCommit
               \/ Filled(currentPolarityPacket, currentPolarityPacketPosition)
               \/ SpanExceeds(currentPolarityPacket,
                              currentPolarityPacketPosition,
                              MaxPolarityPacketInterval)
       /\ Replaced(currentFramePacket, currentFramePacket')
            => \/ forcePacketCommit
               \/ Filled(currentFramePacket, currentFramePacketPosition)
               \/ SpanExceeds(currentFramePacket, currentFramePacketPosition,
                              MaxFramePacketInterval)
       /\ Replaced(currentSpecialPacket, currentSpecialPacket')
            => \/ forcePacketCommit
               \/ Filled(currentSpecialPacket, currentSpecialPacketPosition)
               \/ SpanExceeds(currentSpecialPacket,
                              currentSpecialPacketPosition,
                              MaxSpecialPacketInterval)]_vars

\* C12 (amended): a modality's packet is committed in the iteration of a word
\* exactly when, after the word is decoded, the force flag is set, or the fill
\* position reached capacity, or the packet holds at least two events and the
\* span from event 0 to the last event is at least the interval.  So no
\* packet that is full or has aged is left when the iteration ends, a forced
\* commit has emptied the polarity, frame and IMU6 packets when the special
\* block runs, and all four when the iteration ends.
Due(packet, position, interval) ==
    \/ forcePacketCommit
    \/ Filled(packet, position)
    \/ SpanReaches(packet, position, interval)
Aged(packet, position, interval) ==
    Filled(packet, position) \/ SpanReaches(packet, position, interval)
C12_CommittedIffDue ==
    /\ [][/\ Replaced(currentPolarityPacket, currentPolarityPacket')
               => Due(currentPolarityPacket, currentPolarityPacketPosition,
                      MaxPolarityPacketInterval)
          /\ Replaced(currentFramePacket, currentFramePacket')
               => Due(currentFramePacket, currentFramePacketPosition,
                      MaxFramePacketInterval)
          /\ Replaced(currentIMU6Packet, currentIMU6Packet')
               => Due(currentIMU6Packet, currentIMU6PacketPosition,
                      MaxIMU6PacketInterval)
          /\ Replaced(currentSpecialPacket, currentSpecialPacket')
               => Due(currentSpecialPacket, currentSpecialPacketPosition,
                      MaxSpecialPacketInterval)]_vars
    /\ [](pc = "decode" =>
            /\ ~Aged(currentPolarityPacket, currentPolarityPacketPosition,
                     MaxPolarityPacketInterval)
            /\ ~Aged(currentFramePacket, currentFramePacketPosition,
                     MaxFramePacketInterval)
            /\ ~Aged(currentIMU6Packet, currentIMU6PacketPosition,
                     MaxIMU6PacketInterval)
            /\ ~Aged(currentSpecialPacket, currentSpecialPacketPosition,
                     MaxSpecialPacketInterval)
            /\ forcePacketCommit => currentSpecialPacketPosition = 0)
    /\ []((forcePacketCommit /\ pc \in {"commitSpecial", "decode"}) =>
            /\ currentPolarityPacketPosition = 0
            /\ currentFramePacketPosition = 0
            /\ currentIMU6PacketPosition = 0)

\* C12 witness: a frame packet of two frames whose exposures started exactly
\* one interval apart is about to be committed below capacity.
C12_Witness ==
    /\ pc = "commitFrame" /\ ~forcePacketCommit
    /\ currentFramePacketPosition = 2
    /\ currentFramePacketPosition < currentFramePacket.capacity
    /\ SpanOf(currentFramePacket, 2) = MaxFramePacketInterval

\* ------------------------------------------------- uniformly spaced stream
\* A stream of one modality whose events are one spacing apart: a DVS row and
\* column (a polarity event) or an external input (a special event), then a
\* timestamp word one spacing after the previous one, and so on.  The first
\* word decides the modality, the first timestamp word the spacing.
Spacings ==
    {7, MaxPolarityPacketInterval \div 2, MaxPolarityPacketInterval,
     MaxPolarityPacketInterval + 1}
StreamSpacing == currentTimestamp - lastTimestamp
IsExternalInputWord(w) ==
    ~IsTimestamp(w) /\ CodeOf(w) = 0 /\ DataOf(w) \in {2, 3, 4}

UniformTick(d) ==
    /\ IsXWord(event) \/ IsExternalInputWord(event)
    /\ currentTimestamp = 0 \/ d = StreamSpacing
    /\ TimestampWord(TimestampWordOf(currentTimestamp + d))

UniformExternalInput ==
    /\ nWords = 0 \/ (IsTimestamp(event) /\ IsExternalInputWord(prevEvent))
    /\ ExternalInput(EventWordOf(0, 2))

UniformYAddress ==
    /\ nWords = 0 \/ (IsTimestamp(event) /\ IsXWord(prevEvent))
    /\ YAddress(EventWordOf(1, 0))

UniformXAddress ==
    /\ IsYWord(event)
    /\ XAddress(EventWordOf(3, 0))

UniformInit ==
    /\ chipID = "DAVIS240" /\ dvsInvertXY = FALSE
    /\ ApsOrientationUpright
    /\ apsGlobalShutter = TRUE /\ apsResetRead = TRUE
    /\ InitStreaming(MaxUniformWords)

UniformNext ==
    \/ \E d \in Spacings : UniformTick(d)
    \/ UniformExternalInput
    \/ UniformYAddress
    \/ UniformXAddress
    \/ CommitPolarityPacket
    \/ CommitSpecialPacket
    \/ davisCommonDataGet

UniformSpec == UniformInit /\ [][UniformNext]_vars

Ceil(a, b) == (a + b - 1) \div b
Min(a, b) == IF a <= b THEN a ELSE b

ImuBytes == {0, 128, 255}
NextImuByte(b) == (b * 5 + 131) % 256
ImuTick == 16
ImuScaleConfigs == {22}
IsIMUStartWord(w) == ~IsTimestamp(w) /\ CodeOf(w) = 0 /\ DataOf(w) = 5
IsIMUEndWord(w) == ~IsTimestamp(w) /\ CodeOf(w) = 0 /\ DataOf(w) = 7
IsIMUScaleWord(w) ==
    ~IsTimestamp(w) /\ CodeOf(w) = 0 /\ DataOf(w) \in 16 .. 31
IsIMUByteWord(w) ==
    ~IsTimestamp(w) /\ CodeOf(w) = 5 /\ (DataOf(w) \div 256) % 16 = 0
ImuBytesOf(log) == SelectSeq(log, IsIMUByteWord)

ImuStreamReset ==
    /\ nWords = 0
    /\ TimestampReset(EventWordOf(0, 1))

ImuStreamTick ==
    /\ nWords = 0 \/ IsIMUScaleWord(event)
    /\ TimestampWord(TimestampWordOf(currentTimestamp + ImuTick))

ImuStreamStart ==
    /\ nWords = 0 \/ (nWords = 1 /\ (IsTimestamp(event) \/ IsResetWord(event)))
    /\ IMUStart(EventWordOf(0, 5))

ImuStreamScaleConfig ==
    /\ nWords = 0 \/ IsIMUStartWord(event) \/ IsResetWord(event)
    /\ \E d \in ImuScaleConfigs : IMUScaleConfig(EventWordOf(0, d))

ImuStreamByte ==
    /\ nWords > 0 /\ ~IsIMUEndWord(event)
    /\ LET sent == ImuBytesOf(imuLog)
       IN \E b \in IF Len(sent) < 2 THEN ImuBytes
                 ELSE {NextImuByte(DataOf(sent[Len(sent)]) % 256)} :
              Misc8(EventWordOf(5, b))

ImuStreamUnhandledByte ==
    /\ IsIMUByteWord(event) /\ Len(ImuBytesOf(imuLog)) = 1
    /\ Misc8(EventWordOf(5, 256))

ImuStreamEnd ==
    /\ IsIMUByteWord(event) \/ IsIMUStartWord(event)
    /\ IMUEnd(EventWordOf(0, 7))

ImuInit ==
    /\ chipID = "DAVIS240" /\ dvsInvertXY = FALSE
    /\ ApsOrientationUpright
    /\ apsGlobalShutter = TRUE /\ apsResetRead = TRUE
    /\ InitStreaming(MaxImuWords)

ImuNext ==
    \/ ImuStreamReset
    \/ ImuStreamTick
    \/ ImuStreamStart
    \/ ImuStreamScaleConfig
    \/ ImuStreamByte
    \/ ImuStreamUnhandledByte
    \/ ImuStreamEnd
    \/ CommitPolarityPacket
    \/ CommitFramePacket
    \/ CommitIMU6Packet
    \/ CommitSpecialPacket
    \/ davisCommonDataGet

ImuSpec == ImuInit /\ [][ImuNext]_vars

IMUEndDecoded == DecodeStep /\ IsIMUEndWord(event')
IMU6Validated ==
    /\ currentIMU6PacketPosition' = currentIMU6PacketPosition + 1
    /\ GetEvent(currentIMU6Packet', currentIMU6PacketPosition).valid
IMU6NothingEmitted ==
    /\ currentIMU6PacketPosition' = currentIMU6PacketPosition
    /\ ValidEvents(currentIMU6Packet') = ValidEvents(currentIMU6Packet)

WellFormedIMURecord(log) ==
    /\ Len(log) = 16
    /\ IsIMUStartWord(log[1]) /\ IsIMUScaleWord(log[2])
    /\ \A i \in 3 .. 16 : IsIMUByteWord(log[i])
\* The k-th 16-bit value of the record, first byte high.
BigEndianValue(log, k) ==
    LET first == DataOf(log[2 * k + 1]) % 256
        second == DataOf(log[2 * k + 2]) % 256
        v == first * 256 + second
    IN IF v >= 32768 THEN v - 65536 ELSE v

steadyVars ==
    <<cfgVars, tsVars, dvsVars, apsVars, imuIgnoreEvents, nWords, pc, event,
      forcePacketCommit, container, getLog, containerAfterReset,
      producerLogVars, resetPending, tickVars, historyVars, heapCorrupted,
      imuVars>>
packetVars == <<polarityVars, specialVars, frameVars, imu6Vars>>
memoryVars ==
    <<packetVars, dataExchangeBuffer, apsCurrentResetFrame, nAlloc,
      currentPacketContainer, freedPackets>>

\* The allocations of Start in the order it makes them, and thread creation.
StartSteps ==
    <<"exchangeBuffer", "packetContainer", "polarityPacket", "specialPacket",
      "framePacket", "imu6Packet", "resetFrame", "thread">>
StartFailures == {"none"} \cup SeqRange(StartSteps)
\* The packets allocated before the step that fails.
PacketsBefore(failure) ==
    CASE failure \in {"exchangeBuffer", "packetContainer", "polarityPacket"}
             -> 0
      [] failure = "specialPacket" -> 1
      [] failure = "framePacket" -> 2
      [] failure = "imu6Packet" -> 3
      [] OTHER -> 4
\* Whether Start notices the failure.  After the calloc of the reset frame
\* the test is on currentIMU6Packet, which was allocated and tested before.
StartNotices(failure) ==
    CASE failure = "none" -> FALSE
      [] failure = "resetFrame" -> PacketsBefore(failure) < 4
      [] OTHER -> TRUE

\* freeAllDataMemory that sets the pointers to NULL and frees no packet.
FreeAllDataMemoryLeavingPackets(allocated) ==
    /\ dataExchangeBuffer' = NULL
    /\ currentPolarityPacket' = NULL /\ currentSpecialPacket' = NULL
    /\ currentFramePacket' = NULL /\ currentIMU6Packet' = NULL
    /\ currentPacketContainer' = FALSE
    /\ apsCurrentResetFrame' = NULL
    /\ UNCHANGED freedPackets

\* freeAllDataMemory: whatever is allocated is freed and set to NULL.
FreeAllDataMemory(allocated) ==
    /\ dataExchangeBuffer' = NULL
    /\ currentPolarityPacket' = NULL /\ currentSpecialPacket' = NULL
    /\ currentFramePacket' = NULL /\ currentIMU6Packet' = NULL
    /\ currentPacketContainer' = FALSE
    /\ apsCurrentResetFrame' = NULL
    /\ freedPackets' = freedPackets \cup allocated

\* The body of davisCommonDataStart.  It assigns the call-backs, the
\* buffers, the packets and the settings read from the device, and nothing
\* of the translator's state.
StartBody(failure) ==
    /\ startFailure' = failure
    /\ nAlloc' = nAlloc + PacketsBefore(failure)
    /\ IF StartNotices(failure)
       THEN /\ FreeAllDataMemory(nAlloc + 1 .. nAlloc')
            /\ dataAcquisitionThreadRun' = (failure = "thread")
            /\ appPc' = "startFailed"
            /\ UNCHANGED workerPc
       ELSE /\ dataExchangeBuffer' = ExchangeBufferAtStart
            /\ currentPacketContainer' = TRUE
            /\ currentPolarityPacket' =
                   caerPolarityEventPacketAllocate(nAlloc + 1)
            /\ currentSpecialPacket' =
                   caerSpecialEventPacketAllocate(nAlloc + 2)
            /\ currentFramePacket' = caerFrameEventPacketAllocate(nAlloc + 3)
            /\ currentIMU6Packet' = caerIMU6EventPacketAllocate(nAlloc + 4)
            /\ apsCurrentResetFrame' =
                   IF failure = "resetFrame" THEN NULL ELSE ResetFrameAtStart
            /\ UNCHANGED freedPackets
            /\ dataAcquisitionThreadRun' = TRUE
            /\ workerPc' = "spawned"
            /\ appPc' = "started"
    /\ UNCHANGED <<steadyVars, bytesSent, dataNotifyDecreased,
                   currentPolarityPacketPosition,
                   currentSpecialPacketPosition, currentFramePacketPosition,
                   currentIMU6PacketPosition, cancelIndex, callbackTransfer,
                   dataTransfers, activeDataTransfers, transferFailed>>

\* The first Start on a handle.
davisCommonDataStart(failure) == appPc = "idle" /\ StartBody(failure)

\* Start on a handle whose previous session Stop has ended.
davisCommonDataStartAfterStop(failure) ==
    /\ appPc = "stopped"
    /\ nAlloc + 4 <= MaxSessionPackets
    /\ StartBody(failure)

\* davisCommonDataStop up to pthread_join: the run flag is cleared.
davisCommonDataStopBegin ==
    /\ appPc = "started"
    /\ dataAcquisitionThreadRun' = FALSE
    /\ appPc' = "joining"
    /\ UNCHANGED <<steadyVars, memoryVars, bytesSent, dataNotifyDecreased,
                   transferVars, startFailure>>

PacketIdsOf(packets) == {p.id : p \in packets \ {NULL}}

\* A drain loop that announces the first entry only.
StopDrainAnnouncesFirstOnly ==
    IF dataExchangeBuffer.elems = <<>> THEN 0 ELSE 1

\* The drain loop of Stop runs once for every entry of the exchange buffer.
StopDrainRuns == Len(dataExchangeBuffer.elems)

\* davisCommonDataStop after pthread_join has returned: every entry of the
\* exchange buffer is removed, announced and freed, then freeAllDataMemory,
\* then the positions are zeroed.
davisCommonDataStopJoined ==
    /\ appPc = "joining" /\ workerPc = "exited"
    /\ dataNotifyDecreased' =
           dataNotifyDecreased + StopDrainRuns
    /\ FreeAllDataMemory(
           PacketIdsOf(QueuedPackets
                           \cup {currentPolarityPacket, currentSpecialPacket,
                                 currentFramePacket, currentIMU6Packet}))
    /\ currentPolarityPacketPosition' = 0
    /\ currentSpecialPacketPosition' = 0
    /\ currentFramePacketPosition' = 0
    /\ currentIMU6PacketPosition' = 0
    /\ appPc' = "stopped"
    /\ UNCHANGED <<steadyVars, nAlloc, bytesSent, dataAcquisitionThreadRun,
                   transferVars, startFailure>>

\* The consumer is the thread that calls Stop: it calls Get between Start
\* and Stop.
ConsumerGet == appPc = "started" /\ davisCommonDataGet

\* The data acquisition thread: it allocates and submits the transfers, runs
\* the USB event loop while the run flag is set, then deallocates the
\* transfers and exits.  In davisAllocateTransfers any transfer may fail to
\* be allocated or submitted; with none active the array is freed again.
davisAllocateTransfers ==
    /\ workerPc = "spawned"
    /\ \E active \in SUBSET (1 .. NumTransfers) :
           /\ dataTransfers' =
                  IF active = {} THEN <<>>
                  ELSE [i \in 1 .. NumTransfers |->
                            IF i \in active THEN "submitted" ELSE "NULL"]
           /\ activeDataTransfers' = Cardinality(active)
           /\ transferFailed' = (active # 1 .. NumTransfers)
    /\ workerPc' = "pump" /\ cancelIndex' = 0
    /\ UNCHANGED <<steadyVars, memoryVars, bytesSent, dataNotifyDecreased,
                   appPc, dataAcquisitionThreadRun, callbackTransfer,
                   startFailure>>

WorkerFrame ==
    UNCHANGED <<steadyVars, memoryVars, dataNotifyDecreased, appPc,
                dataAcquisitionThreadRun, startFailure>>

\* The status a transfer carries into its callback: LIBUSB_TRANSFER_COMPLETED,
\* _CANCELLED, _NO_DEVICE, or one of the other errors (_ERROR, _TIMED_OUT,
\* _STALL, _OVERFLOW).
DeviceStatuses == {"completed", "error", "noDevice"}
PendingStatuses == DeviceStatuses \cup {"cancelled"}

\* A submitted transfer ends on the device with a status; its callback is
\* pending.
TransferEnds(i, status) ==
    /\ i \in DOMAIN dataTransfers /\ dataTransfers[i] = "submitted"
    /\ dataTransfers' = [dataTransfers EXCEPT ![i] = status]
    /\ transferFailed' = (transferFailed \/ status = "noDevice")
    /\ UNCHANGED <<workerPc, cancelIndex, callbackTransfer,
                   activeDataTransfers, bytesSent>>
    /\ WorkerFrame

\* The device fills a submitted transfer.
TransferCompletes(i) == TransferEnds(i, "completed")

\* The callback hands the payload to the translator for this status.
DecodesPayload(status) == status = "completed"

\* A callback that submits again only a transfer that completed.
ResubmitsCompletedOnly(status) == status = "completed"

\* The callback submits the transfer again for this status.
Resubmits(status) == status \notin {"cancelled", "noDevice"}

\* A callback that counts the transfer off and leaves it in its slot.
TransferGivenUpKeepingSlot(i) ==
    /\ activeDataTransfers' = activeDataTransfers - 1
    /\ dataTransfers' = dataTransfers

\* The transfer is counted off, removed from its slot and freed.
TransferGivenUp(i) ==
    /\ activeDataTransfers' = activeDataTransfers - 1
    /\ dataTransfers' = [dataTransfers EXCEPT ![i] = "NULL"]

\* The callback after the translator: the transfer is submitted again, and
\* given up when it is not or when libusb_submit_transfer fails.
CallbackEnds(i) ==
    IF Resubmits(dataTransfers[i])
    THEN \/ /\ dataTransfers' = [dataTransfers EXCEPT ![i] = "submitted"]
            /\ UNCHANGED <<activeDataTransfers, transferFailed>>
         \/ /\ TransferGivenUp(i)
            /\ transferFailed' = TRUE
    ELSE /\ TransferGivenUp(i)
         /\ UNCHANGED transferFailed

\* libusb_handle_events_timeout, in the pump and in the wait loop of
\* davisDeallocateTransfers, runs the callback of a transfer that has ended:
\* for a payload that is decoded the translator is called on up to one word
\* while fewer than maxWords were decoded.
Callback(i, maxWords) ==
    /\ workerPc \in {"pump", "wait"}
    /\ i \in DOMAIN dataTransfers /\ dataTransfers[i] \in PendingStatuses
    /\ IF DecodesPayload(dataTransfers[i])
       THEN /\ \E n \in 0 .. 1 :
                   /\ nWords + n <= maxWords
                   /\ bytesSent' = 2 * (nWords + n)
            /\ workerPc' = "callback" /\ callbackTransfer' = i
            /\ UNCHANGED <<cancelIndex, dataTransfers, activeDataTransfers,
                           transferFailed>>
       ELSE /\ CallbackEnds(i)
            /\ UNCHANGED <<workerPc, cancelIndex, callbackTransfer,
                           bytesSent>>
    /\ WorkerFrame

CallbackOfCompleted(i) ==
    /\ i \in DOMAIN dataTransfers /\ dataTransfers[i] = "completed"
    /\ Callback(i, MaxLifeWords)

\* The translator has returned.
CallbackResubmits ==
    /\ workerPc = "callback" /\ pc = "decode" /\ 2 * nWords >= bytesSent
    /\ CallbackEnds(callbackTransfer)
    /\ workerPc' = IF cancelIndex = 0 THEN "pump" ELSE "wait"
    /\ callbackTransfer' = 0
    /\ UNCHANGED <<cancelIndex, bytesSent>>
    /\ WorkerFrame

\* The callback of a cancelled transfer: counted off, removed and freed.
CallbackOfCancelled(i) ==
    /\ i \in DOMAIN dataTransfers /\ dataTransfers[i] = "cancelled"
    /\ Callback(i, MaxLifeWords)

\* The pump ends when the run flag is cleared or the last transfer died.
WorkerLeavesPump ==
    /\ workerPc = "pump"
    /\ ~dataAcquisitionThreadRun \/ activeDataTransfers = 0
    /\ workerPc' = "cancel" /\ cancelIndex' = 1
    /\ UNCHANGED <<callbackTransfer, dataTransfers, activeDataTransfers,
                   transferFailed, bytesSent>>
    /\ WorkerFrame

\* davisDeallocateTransfers, one slot of the cancel loop: a submitted
\* transfer is cancelled; for a completed one whose callback has not run
\* libusb_cancel_transfer returns LIBUSB_ERROR_NOT_FOUND and changes nothing.
CancelTransfer ==
    /\ workerPc = "cancel"
    /\ IF cancelIndex > Len(dataTransfers)
       THEN /\ workerPc' = "wait"
            /\ UNCHANGED <<cancelIndex, dataTransfers, transferFailed>>
       ELSE /\ IF dataTransfers[cancelIndex] = "submitted"
               THEN /\ dataTransfers' =
                           [dataTransfers EXCEPT ![cancelIndex] = "cancelled"]
                    /\ transferFailed' = TRUE
               ELSE UNCHANGED <<dataTransfers, transferFailed>>
            /\ cancelIndex' = cancelIndex + 1
            /\ UNCHANGED workerPc
    /\ UNCHANGED <<callbackTransfer, activeDataTransfers, bytesSent>>
    /\ WorkerFrame

\* davisDeallocateTransfers, the end of the wait loop: the array is freed
\* and the thread exits.
WorkerExits ==
    /\ workerPc = "wait" /\ activeDataTransfers = 0
    /\ dataTransfers' = <<>>
    /\ workerPc' = "exited"
    /\ UNCHANGED <<cancelIndex, callbackTransfer, activeDataTransfers,
                   transferFailed, bytesSent>>
    /\ WorkerFrame

\* A handle before Start: nothing is allocated.
NothingAllocated ==
    /\ chipID = "DAVIS240" /\ dvsInvertXY = FALSE
    /\ ApsOrientationUpright
    /\ apsGlobalShutter = TRUE /\ apsResetRead = TRUE
    /\ HandleZeroed
    /\ dataExchangeBlocking = FALSE
    /\ dataExchangeBuffer = NULL
    /\ currentPolarityPacket = NULL /\ currentSpecialPacket = NULL
    /\ currentFramePacket = NULL /\ currentIMU6Packet = NULL
    /\ apsCurrentResetFrame = NULL
    /\ nAlloc = 0 /\ bytesSent = 0
    /\ appPc = "idle" /\ dataAcquisitionThreadRun = FALSE
    /\ workerPc = "none" /\ cancelIndex = 0 /\ callbackTransfer = 0
    /\ dataTransfers = <<>> /\ activeDataTransfers = 0
    /\ transferFailed = FALSE
    /\ currentPacketContainer = FALSE
    /\ freedPackets = {} /\ startFailure = "none"

\* A handle after davisOpen.
LifeInit ==
    NothingAllocated /\ DeviceOpened /\ ControlIdle /\ PayloadsUnobserved

LifeNext ==
    \/ \E failure \in StartFailures : davisCommonDataStart(failure)
    \/ davisAllocateTransfers
    \/ \E i \in 1 .. NumTransfers : TransferCompletes(i)
    \/ \E i \in 1 .. NumTransfers : CallbackOfCompleted(i)
    \/ \E w \in ResetWords : TimestampReset(w)
    \/ \E w \in ResetWords : ExternalInput(w)
    \/ CommitPolarityPacket
    \/ CommitFramePacket
    \/ CommitIMU6Packet
    \/ CommitSpecialPacket
    \/ CallbackResubmits
    \/ \E i \in 1 .. NumTransfers : CallbackOfCancelled(i)
    \/ ConsumerGet
    \/ davisCommonDataStopBegin
    \/ WorkerLeavesPump
    \/ CancelTransfer
    \/ WorkerExits
    \/ davisCommonDataStopJoined

LifeSpec == LifeInit /\ [][LifeNext]_vars

\* The threads are scheduled, libusb delivers the callbacks that are pending,
\* and Stop is called; nothing is assumed of the device or of the consumer.
FairLifeSpec ==
    /\ LifeSpec
    /\ WF_vars(davisAllocateTransfers)
    /\ WF_vars(\E i \in 1 .. NumTransfers : CallbackOfCompleted(i))
    /\ WF_vars(\E i \in 1 .. NumTransfers : CallbackOfCancelled(i))
    /\ WF_vars(\E w \in ResetWords : TimestampReset(w))
    /\ WF_vars(\E w \in ResetWords : ExternalInput(w))
    /\ WF_vars(CommitPolarityPacket)
    /\ WF_vars(CommitFramePacket)
    /\ WF_vars(CommitIMU6Packet)
    /\ WF_vars(CommitSpecialPacket)
    /\ WF_vars(CallbackResubmits)
    /\ WF_vars(davisCommonDataStopBegin)
    /\ WF_vars(WorkerLeavesPump)
    /\ WF_vars(CancelTransfer)
    /\ WF_vars(WorkerExits)
    /\ WF_vars(davisCommonDataStopJoined)


\* C16 (as stated): Stop returns from every streaming state: once the run
\* flag is cleared the worker is joined and Stop completes, and no
\* completion callback blocks, also when the callback commits packets to a
\* full exchange buffer that the consumer no longer empties.
CallbackRunning == workerPc = "callback"
StopCalled == appPc = "joining"
StopReturned == appPc = "stopped"
C16_StopReturnsAndNoCallbackBlocks ==
    /\ StopCalled ~> StopReturned
    /\ CallbackRunning ~> ~CallbackRunning

\* C17 (as stated, leaving aside a callback that spins as in C16): the
\* teardown of the transfers terminates: after the cancel loop the count of
\* active transfers reaches zero and the wait loop exits, also when a
\* transfer had completed and its callback had not run.
CallbackSpins ==
    /\ CallbackRunning /\ pc = "commitSpecial" /\ forcePacketCommit
    /\ ringBufferFull(dataExchangeBuffer)
C17_TeardownTerminates ==
    (workerPc = "cancel")
        ~> ((activeDataTransfers = 0 /\ workerPc = "exited") \/ CallbackSpins)


\* The packets that are allocated and not freed: every packet Start or a
\* commit allocated, less those a failed put freed, those Stop or a failed
\* Start freed, and those the consumer obtained and owns.
LivePackets ==
    {id \in 1 .. nAlloc :
         id \notin dropLog \cup freedPackets \cup SeqRange(getLog)}
LiveTransfers ==
    {i \in DOMAIN dataTransfers : dataTransfers[i] # "NULL"}

\* C18: after Start, any stream activity and Stop, nothing is left
\* allocated: no in-progress, queued or dropped packet, no transfer, and
\* neither the exchange buffer, the container nor the reset frame.
C18_NothingLiveAfterStop ==
    /\ activeDataTransfers = Cardinality(LiveTransfers)
    /\ StopReturned =>
           /\ LivePackets = {}
           /\ dataTransfers = <<>> /\ activeDataTransfers = 0
           /\ dataExchangeBuffer = NULL /\ ~currentPacketContainer
           /\ apsCurrentResetFrame = NULL
           /\ currentPolarityPacket = NULL /\ currentSpecialPacket = NULL
           /\ currentFramePacket = NULL /\ currentIMU6Packet = NULL
\* Stop has returned after a packet was dropped, packets were left in the
\* exchange buffer and a transfer was cancelled.
C18_Witness ==
    /\ StopReturned /\ startFailure = "none"
    /\ dropLog # {}
    /\ Len(putLog) > Len(getLog)
    /\ cancelIndex > NumTransfers

\* C19: Stop removes every entry still in the exchange buffer and calls
\* dataNotifyDecrease once for each; when it returns the buffer is released
\* and the four positions are zero.
C19_StopDrainsAndAnnouncesEach ==
    /\ [][StopReturned' /\ ~StopReturned
            => /\ dataNotifyDecreased' =
                      dataNotifyDecreased + Len(dataExchangeBuffer.elems)
               /\ dataNotifyDecreased' = dataNotifyIncreased]_vars
    /\ [](StopReturned =>
              /\ dataExchangeBuffer = NULL
              /\ dataNotifyDecreased = Len(putLog)
              /\ currentPolarityPacketPosition = 0
              /\ currentSpecialPacketPosition = 0
              /\ currentFramePacketPosition = 0
              /\ currentIMU6PacketPosition = 0)
\* Stop has removed two entries, after in-progress events were decoded.
C19_Witness ==
    /\ StopReturned
    /\ dataNotifyDecreased = Len(getLog) + 2
    /\ nWords = 2

\* C20 (as stated): when an allocation of Start or the creation of the
\* thread fails, Start reports the failure, everything allocated so far is
\* released and no worker is spawned.
C20_FailedStartReleasesAll ==
    startFailure # "none" =>
        /\ appPc = "startFailed"
        /\ workerPc = "none"
        /\ LivePackets = {}
        /\ dataExchangeBuffer = NULL /\ ~currentPacketContainer
        /\ apsCurrentResetFrame = NULL

\* ------------------------------------------------- the consumer's Get
\* The consumer calls Get in either mode while the translator decodes
\* special events.  The call is taken in two steps, so the translator may
\* put between the call and a round of the retry loop.
GetInit ==
    /\ chipID = "DAVIS240" /\ dvsInvertXY = FALSE
    /\ ApsOrientationUpright
    /\ apsGlobalShutter = TRUE /\ apsResetRead = TRUE
    /\ StreamingAtStart(MaxGetWords)
    /\ dataExchangeBlocking \in BOOLEAN

GetNext ==
    \/ \E w \in ResetWords : TimestampReset(w)
    \/ \E w \in ResetWords : ExternalInput(w)
    \/ CommitPolarityPacket
    \/ CommitFramePacket
    \/ CommitIMU6Packet
    \/ CommitSpecialPacket
    \/ davisCommonDataGetEnter
    \/ davisCommonDataGetRetry

GetSpec == GetInit /\ [][GetNext]_vars

\* The consumer thread is scheduled, and so is the USB thread.
FairGetSpec ==
    /\ GetSpec
    /\ WF_vars(davisCommonDataGetRetry)
    /\ WF_vars(\E w \in ResetWords : TimestampReset(w))
    /\ WF_vars(\E w \in ResetWords : ExternalInput(w))
    /\ WF_vars(CommitPolarityPacket)
    /\ WF_vars(CommitFramePacket)
    /\ WF_vars(CommitIMU6Packet)
    /\ WF_vars(CommitSpecialPacket)

InGet == appPc = "getting"
GetReturns == InGet /\ ~InGet'
\* C21: a Get that finds the buffer non-empty returns its oldest entry and
\* calls dataNotifyDecrease once; with an empty buffer a non-blocking Get
\* returns NULL and calls nothing, and a blocking Get does not return NULL
\* and returns once a put has succeeded.
C21_GetContract ==
    /\ [][GetReturns =>
            IF dataExchangeBuffer.elems # <<>>
            THEN /\ container' = Head(dataExchangeBuffer.elems)
                 /\ dataExchangeBuffer'.elems = Tail(dataExchangeBuffer.elems)
                 /\ dataNotifyDecreased' = dataNotifyDecreased + 1
            ELSE /\ ~dataExchangeBlocking
                 /\ container' = NULL
                 /\ dataNotifyDecreased' = dataNotifyDecreased
                 /\ dataNotifyIncreased' = dataNotifyIncreased
                 /\ dataExchangeBuffer' = dataExchangeBuffer]_vars
    /\ [][InGet /\ InGet' => /\ dataNotifyDecreased' = dataNotifyDecreased
                             /\ container' = container]_vars
    /\ (InGet /\ dataExchangeBlocking /\ Len(putLog) > Len(getLog))
           ~> (~InGet /\ container # NULL)
\* A blocking Get has returned the older of two packets that were put.
C21_Witness ==
    /\ dataExchangeBlocking /\ ~InGet
    /\ getLog = <<1>> /\ container # NULL /\ container.id = 1
    /\ Len(putLog) = 2

\* ------------------------------------------------------ the transfer ring
\* The transfers between Start and Stop with every status the USB layer
\* reports and failing submissions; the payloads carry no word.
RingNext ==
    \/ \E failure \in StartFailures : davisCommonDataStart(failure)
    \/ davisAllocateTransfers
    \/ \E i \in 1 .. NumTransfers, status \in DeviceStatuses :
           TransferEnds(i, status)
    \/ \E i \in 1 .. NumTransfers : Callback(i, 0)
    \/ CallbackResubmits
    \/ davisCommonDataStopBegin
    \/ WorkerLeavesPump
    \/ CancelTransfer
    \/ WorkerExits
    \/ davisCommonDataStopJoined

RingSpec == LifeInit /\ [][RingNext]_vars

\* Streaming: the transfers were submitted, the thread is in its event loop
\* or in a callback, and Stop has not begun.
Streaming ==
    /\ appPc = "started" /\ workerPc \in {"pump", "callback"}
\* The transfers the USB layer holds: all that are not removed, less the one
\* whose callback is running.
InFlight ==
    LiveTransfers \ (IF CallbackRunning THEN {callbackTransfer} ELSE {})

SlotEnds(i) ==
    /\ i \in DOMAIN dataTransfers /\ i \in DOMAIN dataTransfers'
    /\ dataTransfers[i] \in PendingStatuses
    /\ dataTransfers'[i] # dataTransfers[i]
C28_CallbackKeepsCount ==
    /\ [](CallbackRunning => dataTransfers[callbackTransfer] = "completed")
    /\ [](activeDataTransfers = Cardinality(LiveTransfers))
    /\ [][\A i \in 1 .. NumTransfers :
            /\ SlotEnds(i) =>
                  \/ /\ dataTransfers[i] \notin {"cancelled", "noDevice"}
                     /\ dataTransfers'[i] = "submitted"
                     /\ activeDataTransfers' = activeDataTransfers
                  \/ /\ dataTransfers'[i] = "NULL"
                     /\ activeDataTransfers' = activeDataTransfers - 1
                     /\ \/ dataTransfers[i] \in {"cancelled", "noDevice"}
                        \/ transferFailed'
            /\ (i \in DOMAIN dataTransfers /\ dataTransfers[i] = "NULL"
                  /\ i \in DOMAIN dataTransfers')
                  => dataTransfers'[i] = "NULL"]_vars
    /\ [][activeDataTransfers' # activeDataTransfers /\ workerPc # "spawned"
            => \E i \in 1 .. NumTransfers : SlotEnds(i)]_vars
\* In the event loop one transfer has been removed and the other has ended
\* with an error, its callback pending.
C28_Witness ==
    /\ activeDataTransfers = 1 /\ Len(dataTransfers) = NumTransfers
    /\ dataTransfers[1] = "error" /\ dataTransfers[2] = "NULL"
    /\ workerPc = "pump" /\ dataAcquisitionThreadRun

\* ------------------------------------------------------ repeated sessions
\* Start, timestamps and DVS addresses on the wire, Stop, and Start again on
\* the same handle.  The frame and IMU6 packets stay empty and nothing forces
\* a commit, so their commit blocks are never entered.
SessionWords ==
    {TimestampWordOf(64), EventWordOf(1, DvsSizeY - 1), EventWordOf(3, 0)}

SessionNext ==
    \/ davisCommonDataStart("none")
    \/ davisCommonDataStartAfterStop("none")
    \/ davisAllocateTransfers
    \/ \E i \in 1 .. NumTransfers : TransferCompletes(i)
    \/ \E i \in 1 .. NumTransfers : Callback(i, MaxSessionWords)
    \/ \E w \in SessionWords : TimestampWord(w)
    \/ \E w \in SessionWords : YAddress(w)
    \/ \E w \in SessionWords : XAddress(w)
    \/ CommitPolarityPacket
    \/ CommitSpecialPacket
    \/ CallbackResubmits
    \/ davisCommonDataStopBegin
    \/ WorkerLeavesPump
    \/ CancelTransfer
    \/ WorkerExits
    \/ davisCommonDataStopJoined

SessionSpec == LifeInit /\ [][SessionNext]_vars

\* Start has returned and the acquisition thread has not run yet.
SessionBegins == appPc = "started" /\ workerPc = "spawned"
DecoderFresh ==
    /\ wrapAdd = 0 /\ currentTimestamp = 0 /\ lastTimestamp = 0
    /\ dvsTimestamp = 0 /\ ~dvsGotY
    /\ apsCurrentReadoutType = APS_READOUT_RESET
    /\ \A j \in 0 .. APS_READOUT_TYPES_NUM - 1 :
           apsCountX[j] = 0 /\ apsCountY[j] = 0
    /\ ~apsIgnoreEvents /\ ~imuIgnoreEvents /\ imuCount = 0
    /\ currentPolarityPacketPosition = 0
    /\ currentSpecialPacketPosition = 0
    /\ currentFramePacketPosition = 0
    /\ currentIMU6PacketPosition = 0
\* C23 (as stated): whenever Start has returned, also after a previous
\* session and its Stop, the decoder state is fresh: the timestamps and the
\* wrap offset are zero, the Y latch is clear, the APS and IMU counters and
\* ignore flags have their initial values and the fill positions are zero.
C23_SessionStartsFresh == SessionBegins => DecoderFresh

-----------------------------------------------------------------------------
\* davisOpen: the device is looked for and opened, and refused when its
\* serial number or its logic revision is not the one asked for.

MaxLogicRevision == 2
LogicRevisions == 0 .. MaxLogicRevision
DeviceSerials == {"A", "B"}
SerialFilters == {""} \cup DeviceSerials
OpenFailures == {"none", "usbInit", "deviceOpen", "logString"}

SerialNumberMatches ==
    serialNumberRestrict = "" \/ serialNumberRestrict = serialNumber
LogicTooOld == logicVersion < requiredLogicRevision

\* What the failure paths release: the device handle and the context when
\* they exist, then the memory of the handle.
OpenFails(closesDevice, exitsContext, readsHandle) ==
    /\ openPc' = "failed"
    /\ deviceHandle' = IF closesDevice THEN "closed" ELSE deviceHandle
    /\ deviceContext' = IF exitsContext THEN "exited" ELSE deviceContext
    /\ handleMemory' = "freed"
    /\ handleReadAfterFree' = readsHandle

\* The message of the logic revision path is built after free(handle), and
\* its arguments read handle->info.logicVersion.
LogicMessageReadsHandle == TRUE

davisOpen(failure) ==
    /\ openPc = "closed"
    /\ IF failure = "usbInit"
         THEN OpenFails(FALSE, FALSE, FALSE)
         ELSE IF failure = "deviceOpen"
         THEN OpenFails(FALSE, TRUE, FALSE)
         ELSE IF failure = "logString"
         THEN OpenFails(TRUE, TRUE, FALSE)
         ELSE IF ~SerialNumberMatches
         THEN OpenFails(TRUE, TRUE, FALSE)
         ELSE IF LogicTooOld
         THEN OpenFails(TRUE, TRUE, LogicMessageReadsHandle)
         ELSE /\ openPc' = "opened"
              /\ deviceHandle' = "open"
              /\ deviceContext' = "initialized"
              /\ UNCHANGED <<handleMemory, handleReadAfterFree>>
    /\ UNCHANGED <<logicVersion, requiredLogicRevision, serialNumber,
                   serialNumberRestrict, spiVars, payloadVars>>
    /\ UNCHANGED <<chipID, dvsInvertXY, apsInvertXY, apsFlipX, apsFlipY,
                   dataExchangeBlocking, streamVars>>

\* A zeroed handle that davisOpen has not been called on yet, a device and
\* what the caller asks of it.
OpenInit ==
    /\ NothingAllocated /\ ControlIdle /\ PayloadsUnobserved
    /\ openPc = "closed" /\ handleMemory = "allocated"
    /\ deviceHandle = "NULL" /\ deviceContext = "none"
    /\ logicVersion \in LogicRevisions
    /\ requiredLogicRevision \in LogicRevisions
    /\ serialNumber \in DeviceSerials
    /\ serialNumberRestrict \in SerialFilters
    /\ handleReadAfterFree = FALSE

OpenNext == \E failure \in OpenFailures : davisOpen(failure)

OpenSpec == OpenInit /\ [][OpenNext]_vars

OpenReturned == openPc \in {"opened", "failed"}

Released ==
    /\ deviceHandle = "closed" /\ deviceContext = "exited"
    /\ handleMemory = "freed"

\* C24 (as stated): when the logic revision of the device is lower than
\* the required one, or a non-empty serial filter differs from the serial
\* number of the device, Open fails with the device handle, the context and
\* the memory of the handle released and the handle not used after its
\* release; with an empty filter no serial number makes Open fail.
C24_OpenRejects ==
    /\ [](OpenReturned /\ deviceHandle # "NULL"
              /\ (LogicTooOld \/ ~SerialNumberMatches)
            => openPc = "failed" /\ Released /\ ~handleReadAfterFree)
    /\ [][davisOpen("none") /\ serialNumberRestrict = "" /\ ~LogicTooOld
            => openPc' = "opened"]_vars

-----------------------------------------------------------------------------
\* The control transfers: a 32-bit parameter travels as four bytes.
\* spiConfig[i] of the code is spiConfig[i + 1] here.  A uint32_t is held
\* as the int32_t with the same bit pattern, as for the timestamps.

\* The value of four bytes, the first the most significant.
PayloadValue(payload) ==
    (IF payload[1] >= 128 THEN payload[1] - 256 ELSE payload[1]) * 16777216
        + payload[2] * 65536 + payload[3] * 256 + payload[4]

SpiBytes == {0, 1, 127, 128, 255}
SpiValues ==
    {PayloadValue(<<b0, b1, b2, b3>>) :
        b0 \in SpiBytes, b1 \in SpiBytes, b2 \in SpiBytes, b3 \in SpiBytes}

\* bit 31 and bits 0 to 30 of a 32-bit pattern
TopBit(x) == x < 0
Low31(x) == IF x < 0 THEN (x + MaxI32) + 1 ELSE x

U8T(x) == Low31(x) % 256
\* (uint32_t) of an int: the same bit pattern
U32T(x) == x

\* x >> n of a uint32_t
ShiftRight(x, n) ==
    IF n = 0 THEN x
    ELSE (Low31(x) \div (2 ^ n)) + (IF TopBit(x) THEN 2 ^ (31 - n) ELSE 0)
\* b << n of a byte: the byte is promoted to int and the result is the int
\* with the low 32 bits of b * 2^n
ShiftLeftInt(b, n) ==
    IF n > 0 /\ b >= 2 ^ (31 - n)
        THEN (b - 2 * (2 ^ (31 - n))) * (2 ^ n)
        ELSE b * (2 ^ n)

RECURSIVE BitOr31(_, _)
BitOr31(a, b) ==
    IF a = 0 THEN b
    ELSE IF b = 0 THEN a
    ELSE (IF a % 2 = 1 \/ b % 2 = 1 THEN 1 ELSE 0)
             + 2 * BitOr31(a \div 2, b \div 2)
\* a | b of two 32-bit patterns
BitOr(a, b) ==
    LET low == BitOr31(Low31(a), Low31(b))
    IN  IF TopBit(a) \/ TopBit(b) THEN (low - MaxI32) - 1 ELSE low

SpiPayloadLittleEndian(param) ==
    <<U8T(ShiftRight(param, 0)), U8T(ShiftRight(param, 8)),
      U8T(ShiftRight(param, 16)), U8T(ShiftRight(param, 24))>>

SpiPayload(param) ==
    <<U8T(ShiftRight(param, 24)), U8T(ShiftRight(param, 16)),
      U8T(ShiftRight(param, 8)), U8T(ShiftRight(param, 0))>>

SpiAssemble(payload) ==
    LET r1 == BitOr(0, U32T(ShiftLeftInt(payload[1], 24)))
        r2 == BitOr(r1, U32T(ShiftLeftInt(payload[2], 16)))
        r3 == BitOr(r2, U32T(ShiftLeftInt(payload[3], 8)))
    IN  BitOr(r3, U32T(ShiftLeftInt(payload[4], 0)))

SpiUnchanged ==
    UNCHANGED <<chipID, dvsInvertXY, apsInvertXY, apsFlipX, apsFlipY,
                dataExchangeBlocking, openVars, payloadVars, streamVars>>

\* The payload is built and handed to the control transfer.
spiConfigSend ==
    /\ spiPc = "idle"
    /\ spiConfig' = SpiPayload(spiParam)
    /\ spiPc' = "sent"
    /\ UNCHANGED <<spiParam, returnedParam>>
    /\ SpiUnchanged

\* The control transfer fills the payload with the bytes that were sent, and
\* the parameter is put together from it.
spiConfigReceive ==
    /\ spiPc = "sent"
    /\ returnedParam' = SpiAssemble(spiConfig)
    /\ spiPc' = "received"
    /\ UNCHANGED <<spiParam, spiConfig>>
    /\ SpiUnchanged

SpiInit ==
    /\ NothingAllocated /\ DeviceOpened /\ PayloadsUnobserved
    /\ spiParam \in SpiValues
    /\ spiConfig = <<0, 0, 0, 0>> /\ returnedParam = 0 /\ spiPc = "idle"

SpiNext == spiConfigSend \/ spiConfigReceive

SpiSpec == SpiInit /\ [][SpiNext]_vars

\* C25: the payload spiConfigSend builds is four bytes, the most
\* significant byte of the parameter first, and the assembly of
\* spiConfigReceive applied to that payload gives the parameter back.
C25_SpiRoundTrip ==
    /\ spiPc \in {"sent", "received"} =>
           /\ Len(spiConfig) = 4
           /\ \A i \in 1 .. 4 : spiConfig[i] \in 0 .. 255
           /\ spiConfig[1] = (spiParam \div 16777216) % 256
           /\ PayloadValue(spiConfig) = spiParam
    /\ spiPc = "received" => returnedParam = spiParam

\* A parameter with its top bit set and four different bytes has made the
\* round trip.
C25_Witness ==
    /\ spiPc = "received"
    /\ spiConfig = <<128, 1, 255, 127>>
    /\ returnedParam = -2147352705

-----------------------------------------------------------------------------
\* The iteration of a timestamp reset.

ResetWord == EventWordOf(0, 1)

ResetEvent == [timestamp |-> -1, type |-> "TIMESTAMP_RESET", data |-> 0,
               valid |-> TRUE]

AllPositionsZero ==
    /\ currentPolarityPacketPosition = 0
    /\ currentFramePacketPosition = 0
    /\ currentIMU6PacketPosition = 0
    /\ currentSpecialPacketPosition = 0

\* The block at position from of a forced iteration has run: the packet it
\* found was put or dropped, and control is at the block at position to.
ForcedBlockRan(from, to, before, after, position) ==
    (forcePacketCommit /\ pc = from /\ pc' # from) =>
        /\ pc' = to
        /\ after # before
        /\ position = 0
        /\ \/ before.id \in dropLog'
           \/ \E k \in 1 .. Len(putLog') : putLog'[k] = before.id

\* C26: a TIMESTAMP_RESET word zeroes wrapAdd, currentTimestamp,
\* lastTimestamp and dvsTimestamp and appends one valid TIMESTAMP_RESET
\* event whose timestamp field holds 0xFFFFFFFF (-1 as int32_t) to the
\* special packet; the polarity, frame, IMU6 and special blocks of that
\* iteration all commit, the special packet never dropped, so that the
\* four fill positions are zero when the iteration is over; and
\* forcePacketCommit is set in the iteration of a reset word only.
C26_ResetCommitsEverything ==
    /\ [][\A w \in Words : TimestampReset(w) =>
            /\ wrapAdd' = 0 /\ currentTimestamp' = 0
            /\ lastTimestamp' = 0 /\ dvsTimestamp' = 0
            /\ currentSpecialPacketPosition'
                   = currentSpecialPacketPosition + 1
            /\ GetEvent(currentSpecialPacket',
                        currentSpecialPacketPosition) = ResetEvent
            /\ \A i \in 0 .. currentSpecialPacketPosition - 1 :
                   GetEvent(currentSpecialPacket', i)
                       = GetEvent(currentSpecialPacket, i)
            /\ forcePacketCommit' /\ pc' = "commitPolarity"]_vars
    /\ [][ForcedBlockRan("commitPolarity", "commitFrame",
                         currentPolarityPacket, currentPolarityPacket',
                         currentPolarityPacketPosition')]_vars
    /\ [][ForcedBlockRan("commitFrame", "commitIMU6",
                         currentFramePacket, currentFramePacket',
                         currentFramePacketPosition')]_vars
    /\ [][ForcedBlockRan("commitIMU6", "commitSpecial",
                         currentIMU6Packet, currentIMU6Packet',
                         currentIMU6PacketPosition')]_vars
    /\ [][ForcedBlockRan("commitSpecial", "decode",
                         currentSpecialPacket, currentSpecialPacket',
                         currentSpecialPacketPosition')
          /\ (forcePacketCommit /\ pc = "commitSpecial" /\ pc' = "decode"
                 => currentSpecialPacket.id = putLog'[Len(putLog')])]_vars
    /\ [](forcePacketCommit /\ pc = "decode" =>
             /\ AllPositionsZero
             /\ wrapAdd = 0 /\ currentTimestamp = 0
             /\ lastTimestamp = 0 /\ dvsTimestamp = 0)
    /\ [](forcePacketCommit => event = ResetWord)

\* The iteration of a reset that followed a polarity event is over: the
\* polarity packet with that event and the special packet with the reset
\* were put, and one of the other two packets was dropped.
C26_Witness ==
    /\ forcePacketCommit /\ pc = "decode"
    /\ event = ResetWord /\ prevEvent = EventWordOf(3, 0)
    /\ Len(putLog) >= 2 /\ dropLog # {}
    /\ AllPositionsZero

-----------------------------------------------------------------------------
\* What a commit does with the packet it found.

PacketsInBuffer == {dataExchangeBuffer.elems[k].id :
                        k \in 1 .. Len(dataExchangeBuffer.elems)}
CurrentPackets == {currentPolarityPacket.id, currentFramePacket.id,
                   currentIMU6Packet.id, currentSpecialPacket.id}
PutPackets == {putLog[k] : k \in 1 .. Len(putLog)}

\* The block at position block has committed the packet before: when the
\* put succeeded the packet is the new tail of the buffer and is announced
\* once; when it failed the buffer and the count of announcements are as
\* they were, the packet is dropped, and control is past the block.
CommitForwards(block, before, after) ==
    (pc = block /\ Replaced(before, after)) =>
        IF ringBufferFull(dataExchangeBuffer)
        THEN /\ dataNotifyIncreased' = dataNotifyIncreased
             /\ dataExchangeBuffer' = dataExchangeBuffer
             /\ putLog' = putLog
             /\ before.id \in dropLog'
             /\ pc' # block
        ELSE /\ dataNotifyIncreased' = dataNotifyIncreased + 1
             /\ dataExchangeBuffer'.elems
                    = Append(dataExchangeBuffer.elems, before)
             /\ putLog' = Append(putLog, before.id)
             /\ dropLog' = dropLog

\* C27: a commit announces the packet exactly once when the put succeeded
\* and not at all when it failed; a polarity, frame or IMU6 packet, or a
\* special packet without forcePacketCommit, whose put failed is dropped
\* and never put later, apsIgnoreEvents (frame) or imuIgnoreEvents (IMU6)
\* is set, and the translator goes on with the next block and word.
C27_CommitAnnouncesOncePerPut ==
    /\ [][/\ CommitForwards("commitPolarity", currentPolarityPacket,
                            currentPolarityPacket')
          /\ CommitForwards("commitFrame", currentFramePacket,
                            currentFramePacket')
          /\ CommitForwards("commitIMU6", currentIMU6Packet,
                            currentIMU6Packet')
          /\ CommitForwards("commitSpecial", currentSpecialPacket,
                            currentSpecialPacket')]_vars
    /\ [][/\ (pc = "commitFrame" /\ Replaced(currentFramePacket,
                                             currentFramePacket')
              /\ ringBufferFull(dataExchangeBuffer)) => apsIgnoreEvents'
          /\ (pc = "commitIMU6" /\ Replaced(currentIMU6Packet,
                                            currentIMU6Packet')
              /\ ringBufferFull(dataExchangeBuffer)) => imuIgnoreEvents'
          /\ (pc = "commitSpecial" /\ Replaced(currentSpecialPacket,
                                               currentSpecialPacket')
              /\ ringBufferFull(dataExchangeBuffer)) => ~forcePacketCommit
          /\ (pc = "commitSpecial" /\ ~forcePacketCommit
              /\ ringBufferFull(dataExchangeBuffer))
                 => (pc' = "commitSpecial"
                     \/ currentSpecialPacket.id \in dropLog')]_vars
    /\ [][dataNotifyIncreased' # dataNotifyIncreased =>
            /\ dataNotifyIncreased' = dataNotifyIncreased + 1
            /\ Len(putLog') = Len(putLog) + 1
            /\ ~ringBufferFull(dataExchangeBuffer)]_vars
    /\ [](dataNotifyIncreased = Len(putLog))
    /\ [](\A id \in dropLog :
             id \notin PutPackets \cup PacketsInBuffer \cup CurrentPackets)

\* The second of two resets found the buffer full: its polarity, frame and
\* IMU6 packets were dropped, both flags are set, the three packets put
\* earlier were announced, and the special block is next.
C27_Witness ==
    /\ pc = "commitSpecial" /\ forcePacketCommit
    /\ ringBufferFull(dataExchangeBuffer)
    /\ Cardinality(dropLog) >= 4
    /\ apsIgnoreEvents /\ imuIgnoreEvents
    /\ Len(putLog) = 3 /\ dataNotifyIncreased = 3

-----------------------------------------------------------------------------
\* Who owns a packet.

\* The block at position block has committed, the put taken or not: the
\* packet in progress afterwards is newly allocated, with an identity no
\* packet had before and every event zeroed, and its position is zero.
CommitAllocates(block, before, after, position, zero) ==
    (pc = block /\ (putLog' # putLog \/ dropLog' # dropLog)) =>
        /\ after # before
        /\ after.id = nAlloc' /\ nAlloc' = nAlloc + 1
        /\ after.id \notin CurrentPackets \cup PutPackets \cup dropLog
        /\ after.type = before.type /\ after.capacity = before.capacity
        /\ \A n \in 0 .. after.capacity - 1 : GetEvent(after, n) = zero
        /\ position = 0

\* The packet in progress was written to.
Written(before, after) == after.id = before.id /\ after # before

\* C29: after every commit, the put taken or refused, the packet in
\* progress of that kind is a newly allocated one, different from the
\* committed one, and its position is zero; and no packet is written to
\* after its put was taken: no packet in progress was ever put, and what
\* is in the exchange buffer stays as it was put.
C29_CommittedPacketsAreHandedOver ==
    /\ [][/\ CommitAllocates("commitPolarity", currentPolarityPacket,
                             currentPolarityPacket',
                             currentPolarityPacketPosition',
                             ZeroPolarityEvent)
          /\ CommitAllocates("commitFrame", currentFramePacket,
                             currentFramePacket',
                             currentFramePacketPosition', ZeroFrameEvent)
          /\ CommitAllocates("commitIMU6", currentIMU6Packet,
                             currentIMU6Packet',
                             currentIMU6PacketPosition', ZeroIMU6Event)
          /\ CommitAllocates("commitSpecial", currentSpecialPacket,
                             currentSpecialPacket',
                             currentSpecialPacketPosition',
                             ZeroSpecialEvent)]_vars
    /\ [](CurrentPackets \cap (PutPackets \cup dropLog) = {})
    /\ [](Cardinality(CurrentPackets) = 4)
    /\ [][/\ Written(currentPolarityPacket, currentPolarityPacket')
               => currentPolarityPacket.id \notin PutPackets
          /\ Written(currentFramePacket, currentFramePacket')
               => currentFramePacket.id \notin PutPackets
          /\ Written(currentIMU6Packet, currentIMU6Packet')
               => currentIMU6Packet.id \notin PutPackets
          /\ Written(currentSpecialPacket, currentSpecialPacket')
               => currentSpecialPacket.id \notin PutPackets]_vars
    /\ [][\A k \in 1 .. Len(dataExchangeBuffer.elems) :
            \A j \in 1 .. Len(dataExchangeBuffer'.elems) :
                dataExchangeBuffer'.elems[j].id
                        = dataExchangeBuffer.elems[k].id
                    => dataExchangeBuffer'.elems[j]
                           = dataExchangeBuffer.elems[k]]_vars

\* The special packet with a reset is in the exchange buffer, and the
\* packet allocated in its place has received an event of its own.
C29_Witness ==
    /\ \E k \in 1 .. Len(dataExchangeBuffer.elems) :
          /\ dataExchangeBuffer.elems[k].type = "SPECIAL"
          /\ GetEvent(dataExchangeBuffer.elems[k], 0) = ResetEvent
          /\ dataExchangeBuffer.elems[k].id \in PutPackets
    /\ currentSpecialPacketPosition = 1
    /\ GetEvent(currentSpecialPacket, 0).valid
    /\ currentSpecialPacket.id \notin PutPackets

-----------------------------------------------------------------------------
\* Ignored APS and IMU events: after a forced commit the words of a frame
\* and of an IMU record are skipped until the next frame or record starts.
IgnoreWords ==
    {EventWordOf(0, d) : d \in {1, 5, 7, 8, 10, 11, 12, 13, 15, 22}}
        \cup {EventWordOf(4, 1), EventWordOf(5, 128)}

IgnoreInit ==
    /\ chipID = "DAVIS240" /\ dvsInvertXY = FALSE
    /\ ApsOrientationUpright
    /\ apsGlobalShutter = TRUE /\ apsResetRead = TRUE
    /\ InitStreaming(MaxIgnoreWords)

IgnoreNext ==
    \/ \E w \in IgnoreWords : TimestampReset(w)
    \/ \E w \in IgnoreWords : APSFrameStart(w)
    \/ \E w \in IgnoreWords : APSColumnStart(w)
    \/ \E w \in IgnoreWords : APSColumnEnd(w)
    \/ \E w \in IgnoreWords : APSFrameEnd(w)
    \/ \E w \in IgnoreWords : ADCSample(w)
    \/ \E w \in IgnoreWords : IMUStart(w)
    \/ \E w \in IgnoreWords : IMUScaleConfig(w)
    \/ \E w \in IgnoreWords : Misc8(w)
    \/ \E w \in IgnoreWords : IMUEnd(w)
    \/ CommitPolarityPacket
    \/ CommitFramePacket
    \/ CommitIMU6Packet
    \/ CommitSpecialPacket
    \/ davisCommonDataGet

IgnoreSpec == IgnoreInit /\ [][IgnoreNext]_vars

\* The step decodes a word.
Decodes == nWords' = nWords + 1

IsFrameStartWord(w) ==
    ~IsTimestamp(w) /\ CodeOf(w) = 0 /\ DataOf(w) \in {8, 9, 14, 15}
\* frame end, reset and signal column start, column end, ADC sample
IsFrameBodyWord(w) ==
    /\ ~IsTimestamp(w)
    /\ \/ CodeOf(w) = 0 /\ DataOf(w) \in {10, 11, 12, 13}
       \/ CodeOf(w) = 4
\* IMU end, IMU scale configuration, IMU sample
IsIMUBodyWord(w) == IsIMUEndWord(w) \/ IsIMUScaleWord(w) \/ IsIMUByteWord(w)

\* C30: while apsIgnoreEvents is set, a frame end, a reset or signal column
\* start, a column end and an ADC sample leave the APS counters, the
\* readout type and the frame packet as they are, and only a frame start
\* word (codes 8, 9, 14, 15) clears the flag; while imuIgnoreEvents is set,
\* an IMU end, an IMU scale configuration and an IMU sample change nothing
\* of the IMU state and packet, and only an IMU start clears the flag.
C30_IgnoredWordsChangeNothing ==
    /\ [][(Decodes /\ apsIgnoreEvents /\ IsFrameBodyWord(event')) =>
              UNCHANGED <<apsVars, frameVars, adcVars>>]_vars
    /\ [][(apsIgnoreEvents /\ ~apsIgnoreEvents') =>
              Decodes /\ IsFrameStartWord(event')]_vars
    /\ [][(Decodes /\ imuIgnoreEvents /\ IsIMUBodyWord(event')) =>
              UNCHANGED <<imuIgnoreEvents, imuCount, imuTmpData,
                          imuAccelScale, imuGyroScale, imu6Vars>>]_vars
    /\ [][(imuIgnoreEvents /\ ~imuIgnoreEvents') =>
              Decodes /\ IsIMUStartWord(event')]_vars

\* A column was counted, a reset set both flags, and the IMU sample and the
\* column end that followed were skipped: the column count is still one
\* and no IMU sample was counted.
C30_Witness ==
    /\ apsIgnoreEvents /\ imuIgnoreEvents
    /\ prevEvent = EventWordOf(5, 128) /\ event = EventWordOf(0, 13)
    /\ apsCountX[APS_READOUT_RESET] = 1
    /\ imuCount = 0

-----------------------------------------------------------------------------
\* Words the translator cannot handle, among words it can: a timestamp, DVS
\* addresses, an IMU start, a frame start and an external input.
AnomalousWords ==
    {EventWordOf(1, DvsSizeY), EventWordOf(3, DvsSizeX), EventWordOf(0, 0),
     EventWordOf(0, 6), EventWordOf(0, 32), EventWordOf(6, 0),
     EventWordOf(5, 256)}
AnomalyWords ==
    AnomalousWords \cup
        {TimestampWordOf(16), EventWordOf(1, 1), EventWordOf(3, 0),
         EventWordOf(0, 2), EventWordOf(0, 5), EventWordOf(0, 8)}

AnomalyInit ==
    /\ chipID = "DAVIS240" /\ dvsInvertXY = FALSE
    /\ ApsOrientationUpright
    /\ apsGlobalShutter = TRUE /\ apsResetRead = TRUE
    /\ InitStreaming(MaxAnomalyWords)

AnomalyNext ==
    \/ \E w \in AnomalyWords : TimestampWord(w)
    \/ \E w \in AnomalyWords : UnhandledWord(w)
    \/ \E w \in AnomalyWords : ExternalInput(w)
    \/ \E w \in AnomalyWords : YAddress(w)
    \/ \E w \in AnomalyWords : XAddress(w)
    \/ \E w \in AnomalyWords : IMUStart(w)
    \/ \E w \in AnomalyWords : APSFrameStart(w)
    \/ \E w \in AnomalyWords : Misc8(w)
    \/ CommitPolarityPacket
    \/ CommitSpecialPacket

AnomalySpec == AnomalyInit /\ [][AnomalyNext]_vars

\* C31: a DVS Y or X address out of range, the reserved special subtype 0,
\* the special subtypes 6 and above 31, the event code 6 and a misc-8
\* sub-code other than 0 leave the timestamps, the Y latch and dvsLastY, the
\* APS and IMU state and the four packets and positions as they are, no
\* packet is committed in their iteration, and the next word is decoded.
C31_AnomalousWordChangesNothing ==
    /\ [][(Decodes /\ event' \in AnomalousWords) =>
            /\ pc' = "decode"
            /\ UNCHANGED <<tsVars, dvsVars, apsVars, adcVars,
                           imuIgnoreEvents, imuCount, imuTmpData,
                           imuAccelScale, imuGyroScale, polarityVars,
                           specialVars, frameVars, imu6Vars,
                           dataExchangeBuffer, nAlloc, producerLogVars>>]_vars
    /\ [](pc = "decode" /\ nWords < MaxAnomalyWords /\ event \in AnomalousWords
            => ENABLED (\E w \in AnomalyWords : YAddress(w)))

\* A Y address out of range came between a Y address and its X address:
\* the polarity event carries the row latched before it.
C31_Witness ==
    /\ prevEvent = EventWordOf(1, DvsSizeY) /\ event = EventWordOf(3, 0)
    /\ currentPolarityPacketPosition = 1
    /\ GetEvent(currentPolarityPacket, 0).y = 1
    /\ GetEvent(currentPolarityPacket, 0).valid
    /\ ~dvsGotY

-----------------------------------------------------------------------------
\* C32 (as stated): every store of an ADC sample lands inside the pixel
\* array of the frame and inside apsCurrentResetFrame, whatever the words.
C32_SamplesLandInsideTheirBuffers == ~heapCorrupted

-----------------------------------------------------------------------------
\* The two threads at the grain of the calls: ringBufferPut and the
\* data-available notification of a commit block are two steps of the
\* acquisition thread, and the consumer may run Get between them.

\* ringBufferPut has taken the packet; the notification is still to come.
CommitPuts(block, announce, packet) ==
    /\ pc = block
    /\ ~ringBufferFull(dataExchangeBuffer)
    /\ dataExchangeBuffer' = ringBufferPut(dataExchangeBuffer, packet).rb
    /\ putLog' = Append(putLog, packet.id)
    /\ pc' = announce
    /\ UNCHANGED <<dropLog, dataNotifyIncreased, nAlloc, apsIgnoreEvents,
                   imuIgnoreEvents, polarityVars, specialVars, frameVars,
                   imu6Vars>>
    /\ CommitFrame

\* The notification, and the rest of the block.
CommitAnnounces(announce) ==
    /\ pc = announce
    /\ dataNotifyIncreased' = dataNotifyIncreased + 1
    /\ nAlloc' = nAlloc + 1
    /\ UNCHANGED <<dataExchangeBuffer, putLog, dropLog>>
    /\ CommitFrame

PolarityPut ==
    CommitPuts("commitPolarity", "announcePolarity", currentPolarityPacket)
PolarityAnnounce ==
    /\ CommitAnnounces("announcePolarity")
    /\ currentPolarityPacket' = caerPolarityEventPacketAllocate(nAlloc')
    /\ currentPolarityPacketPosition' = 0
    /\ UNCHANGED <<apsIgnoreEvents, imuIgnoreEvents, specialVars, frameVars,
                   imu6Vars>>
    /\ pc' = BlockFrom(2)'

FramePut == CommitPuts("commitFrame", "announceFrame", currentFramePacket)
FrameAnnounce ==
    /\ CommitAnnounces("announceFrame")
    /\ currentFramePacket' = caerFrameEventPacketAllocate(nAlloc')
    /\ currentFramePacketPosition' = 0
    /\ apsIgnoreEvents' = TRUE
    /\ UNCHANGED <<imuIgnoreEvents, polarityVars, specialVars, imu6Vars>>
    /\ pc' = BlockFrom(3)'

IMU6Put == CommitPuts("commitIMU6", "announceIMU6", currentIMU6Packet)
IMU6Announce ==
    /\ CommitAnnounces("announceIMU6")
    /\ currentIMU6Packet' = caerIMU6EventPacketAllocate(nAlloc')
    /\ currentIMU6PacketPosition' = 0
    /\ imuIgnoreEvents' = TRUE
    /\ UNCHANGED <<apsIgnoreEvents, polarityVars, specialVars, frameVars>>
    /\ pc' = BlockFrom(4)'

SpecialPut ==
    CommitPuts("commitSpecial", "announceSpecial", currentSpecialPacket)
SpecialAnnounce ==
    /\ CommitAnnounces("announceSpecial")
    /\ currentSpecialPacket' = caerSpecialEventPacketAllocate(nAlloc')
    /\ currentSpecialPacketPosition' = 0
    /\ UNCHANGED <<apsIgnoreEvents, imuIgnoreEvents, polarityVars, frameVars,
                   imu6Vars>>
    /\ pc' = "decode"

\* A block whose put is refused: the packet is dropped (or put again) in
\* the same step, as nothing is announced.
PutRefused == ringBufferFull(dataExchangeBuffer)

NotifyWords == {EventWordOf(0, 1), EventWordOf(0, 2), EventWordOf(3, 0)}

NotifyInit ==
    /\ chipID = "DAVIS240" /\ dvsInvertXY = FALSE
    /\ ApsOrientationUpright
    /\ apsGlobalShutter = TRUE /\ apsResetRead = TRUE
    /\ InitStreaming(MaxNotifyWords)

NotifyNext ==
    \/ \E w \in NotifyWords : TimestampReset(w)
    \/ \E w \in NotifyWords : ExternalInput(w)
    \/ \E w \in NotifyWords : XAddress(w)
    \/ PolarityPut
    \/ PolarityAnnounce
    \/ FramePut
    \/ FrameAnnounce
    \/ IMU6Put
    \/ IMU6Announce
    \/ SpecialPut
    \/ SpecialAnnounce
    \/ PutRefused /\ CommitPolarityPacket
    \/ PutRefused /\ CommitFramePacket
    \/ PutRefused /\ CommitIMU6Packet
    \/ PutRefused /\ CommitSpecialPacket
    \/ davisCommonDataGet

NotifySpec == NotifyInit /\ [][NotifyNext]_vars

\* C33 (as stated): at every point of every interleaving the decreases
\* issued so far are no more than the increases issued so far, and after
\* Stop the two counts are equal.
C33_DecreasesWithinIncreases ==
    /\ dataNotifyDecreased <= dataNotifyIncreased
    /\ appPc = "stopped" => dataNotifyDecreased = dataNotifyIncreased

-----------------------------------------------------------------------------
\* A frame start has run on the slot the frame packet is at: initFrame has
\* given the event its lengths and pixels.
FrameStartedInSlot == CurrentFrameEvent.lengthX # 0

\* C34 (as stated): a frame end that no frame start precedes for the slot
\* it closes, such as a frame end that is the first APS word of a session,
\* never leaves a frame event marked valid in that slot.
C34_FrameEndWithoutStartIsInvalid ==
    [][(Decodes /\ event' = EventWordOf(0, 10) /\ ~FrameStartedInSlot) =>
           ~GetEvent(currentFramePacket', currentFramePacketPosition).valid
      ]_vars

-----------------------------------------------------------------------------
\* C35: every commit of the frame packet, put or dropped, forced or due to
\* capacity or time span, leaves apsIgnoreEvents set, and it stays set
\* until a frame start word is decoded; every commit of the IMU6 packet
\* leaves imuIgnoreEvents set until an IMU start word is decoded.  While a
\* flag is set the new packet is as it was allocated, at position zero: no
\* part of a frame or IMU record begun before the commit is in it, and no
\* frame or IMU6 event is validated.
C35_CommitIgnoresTheRecordUnderWay ==
    /\ [][Replaced(currentFramePacket, currentFramePacket')
            => apsIgnoreEvents']_vars
    /\ [][Replaced(currentIMU6Packet, currentIMU6Packet')
            => imuIgnoreEvents']_vars
    /\ [][(apsIgnoreEvents /\ ~IsFrameStartWord(event')) => apsIgnoreEvents'
         ]_vars
    /\ [][(imuIgnoreEvents /\ ~IsIMUStartWord(event')) => imuIgnoreEvents'
         ]_vars
    /\ [](apsIgnoreEvents =>
            /\ currentFramePacket
                   = caerFrameEventPacketAllocate(currentFramePacket.id)
            /\ currentFramePacketPosition = 0)
    /\ [](imuIgnoreEvents =>
            /\ currentIMU6Packet
                   = caerIMU6EventPacketAllocate(currentIMU6Packet.id)
            /\ currentIMU6PacketPosition = 0)

\* The frame packet was committed because it was full, and the frame end,
\* the fourth, that came next was skipped.
C35_Witness ==
    /\ apsIgnoreEvents /\ ~imuIgnoreEvents
    /\ nWords = 4 /\ pc = "decode"
    /\ event = EventWordOf(0, 10) /\ prevEvent = EventWordOf(0, 10)
    /\ currentFramePacket.id > 4
    /\ currentFramePacketPosition = 0


-----------------------------------------------------------------------------
\* The stream cut into transfers.  libusb hands each completed transfer to
\* the callback, which calls the translator on its buffer; the translator
\* drops an odd last byte and reads the rest as little-endian 16-bit words.
\* A stream is decoded twice from the state streaming starts in, first cut into
\* transfers and then as one transfer, and the two outcomes are compared.
MaxSplitWords == 3
SplitBufferSize == 4

SplitWords ==
    {TimestampWordOf(16), EventWordOf(0, 1), EventWordOf(1, 0),
     EventWordOf(3, 0), EventWordOf(0, 8), EventWordOf(0, 11),
     EventWordOf(0, 5), EventWordOf(5, 128)}

\* The two bytes of a word on the wire.
WordBytes(w) == <<w % 256, w \div 256>>

RECURSIVE Concatenated(_)
Concatenated(seqs) ==
    IF seqs = <<>> THEN <<>> ELSE Head(seqs) \o Concatenated(Tail(seqs))

\* The payload of the words ws.
PayloadOf(ws) == Concatenated([k \in 1 .. Len(ws) |-> WordBytes(ws[k])])

\* bytesSent with the extra partial event truncated off, to a multiple of
\* four bytes.
TruncatedToPairs(n) == n - (n % 4)
\* bytesSent with the extra partial event truncated off.
TruncatedBytesSent(n) == n - (n % 2)

\* le16toh(*((uint16_t *) (&buffer[i]))); sequences start at 1.
le16toh(bytes, i) == bytes[i + 1] + 256 * bytes[i + 2]

\* i of the iteration that is about to start: nWords counts the words of all
\* calls and bytesSent is the byte count up to the end of this call.
TranslatorIndex == TruncatedBytesSent(Len(buffer)) - (bytesSent - 2 * nWords)

\* The translator has returned, or has not been called yet.
TranslatorReturned == pc = "decode" /\ 2 * nWords >= bytesSent

\* The word the iteration that is about to start reads is w.
NextWordIs(w) ==
    /\ pc = "decode" /\ 2 * nWords < bytesSent
    /\ w = le16toh(buffer, TranslatorIndex)

\* The callback of the next completed transfer calls the translator.
davisEventTranslator ==
    /\ TranslatorReturned
    /\ completedPayloads # <<>>
    /\ buffer' = Head(completedPayloads)
    /\ completedPayloads' = Tail(completedPayloads)
    /\ bytesSent' = 2 * nWords + TruncatedBytesSent(Len(Head(completedPayloads)))
    /\ UNCHANGED <<usbPayloads, splitResult>>
    /\ UNCHANGED <<chipID, dvsInvertXY, apsInvertXY, apsFlipX, apsFlipY,
                   dataExchangeBlocking, openVars, spiVars>>
    /\ UNCHANGED <<tsVars, dvsVars, apsVars, imuIgnoreEvents, polarityVars,
                   specialVars, frameVars, imu6Vars, dataExchangeBuffer,
                   nWords, pc, event, forcePacketCommit, nAlloc, consumerVars,
                   producerLogVars, resetPending, tickVars, historyVars,
                   adcVars, imuVars, lifeVars>>

\* What the translator leaves behind: the decoder state, the packets put and
\* dropped, and the exchange buffer with the packets in it.
DecoderState ==
    <<tsVars, dvsVars, apsVars, imuIgnoreEvents, polarityVars, specialVars,
      frameVars, imu6Vars, dataExchangeBuffer, nWords, pc, event,
      forcePacketCommit, nAlloc, producerLogVars, resetPending, tickVars,
      historyVars, adcVars, imuVars>>

SplitRunEnded ==
    TranslatorReturned /\ completedPayloads = <<>> /\ splitResult = <<>>
WholeRunEnded ==
    TranslatorReturned /\ completedPayloads = <<>> /\ splitResult # <<>>

\* The state streaming starts in (davisCommonDataStart on a handle that
\* davisOpen has filled in), with an exchange buffer of SplitBufferSize.
SplitStart ==
    /\ DecoderAtOpen
    /\ chipID = "DAVIS240" /\ dvsInvertXY = FALSE
    /\ ApsOrientationUpright
    /\ apsGlobalShutter = TRUE /\ apsResetRead = TRUE
    /\ dataExchangeBlocking = FALSE
    /\ apsCurrentResetFrame = ResetFrameAtStart
    /\ currentPolarityPacket = caerPolarityEventPacketAllocate(1)
    /\ currentSpecialPacket = caerSpecialEventPacketAllocate(2)
    /\ currentFramePacket = caerFrameEventPacketAllocate(3)
    /\ currentIMU6Packet = caerIMU6EventPacketAllocate(4)
    /\ nAlloc = 4
    /\ dataExchangeBuffer = ringBufferInit(SplitBufferSize)
    /\ bytesSent = 0
    /\ appPc = "started" /\ dataAcquisitionThreadRun = TRUE
    /\ workerPc = "pump" /\ cancelIndex = 0 /\ callbackTransfer = 0
    /\ dataTransfers = <<"submitted">> /\ activeDataTransfers = 1
    /\ currentPacketContainer = TRUE
    /\ freedPackets = {} /\ startFailure = "none"
    /\ transferFailed = FALSE

\* The stream of the first run is decoded again, as one transfer, from the
\* state the first run started in; the outcome of the first run is kept.
DecodeAgainAsOneTransfer ==
    /\ SplitRunEnded
    /\ splitResult' = DecoderState
    /\ completedPayloads' = <<Concatenated(usbPayloads)>>
    /\ buffer' = <<>>
    /\ wrapAdd' = 0 /\ lastTimestamp' = 0 /\ currentTimestamp' = 0
    /\ dvsTimestamp' = 0 /\ dvsGotY' = FALSE /\ dvsLastY' = 0
    /\ apsCurrentReadoutType' = APS_READOUT_RESET
    /\ apsCountX' = [j \in 0 .. APS_READOUT_TYPES_NUM - 1 |-> 0]
    /\ apsCountY' = [j \in 0 .. APS_READOUT_TYPES_NUM - 1 |-> 0]
    /\ apsGlobalShutter' = TRUE /\ apsResetRead' = TRUE
    /\ apsIgnoreEvents' = FALSE
    /\ apsRGBPixelOffset' = 0 /\ apsRGBPixelOffsetDirection' = 0
    /\ apsCurrentResetFrame' = ResetFrameAtStart
    /\ heapCorrupted' = FALSE
    /\ imuIgnoreEvents' = FALSE
    /\ imuCount' = 0 /\ imuTmpData' = 0
    /\ imuAccelScale' = calculateIMUAccelScale(0)
    /\ imuGyroScale' = calculateIMUGyroScale(0)
    /\ imuLog' = <<>> /\ imuStartTimestamp' = 0
    /\ currentPolarityPacket' = caerPolarityEventPacketAllocate(1)
    /\ currentSpecialPacket' = caerSpecialEventPacketAllocate(2)
    /\ currentFramePacket' = caerFrameEventPacketAllocate(3)
    /\ currentIMU6Packet' = caerIMU6EventPacketAllocate(4)
    /\ currentPolarityPacketPosition' = 0
    /\ currentSpecialPacketPosition' = 0
    /\ currentFramePacketPosition' = 0
    /\ currentIMU6PacketPosition' = 0
    /\ nAlloc' = 4
    /\ dataExchangeBuffer' = ringBufferInit(SplitBufferSize)
    /\ bytesSent' = 0 /\ nWords' = 0
    /\ pc' = "decode" /\ event' = 0 /\ forcePacketCommit' = FALSE
    /\ resetPending' = FALSE
    /\ putLog' = <<>> /\ dropLog' = {} /\ dataNotifyIncreased' = 0
    /\ devWraps' = 0 /\ tickLog' = <<>>
    /\ prevEvent' = 0 /\ latchedTimestamp' = 0
    /\ UNCHANGED <<chipID, dvsInvertXY, apsInvertXY, apsFlipX, apsFlipY,
                   dataExchangeBlocking, openVars, spiVars, usbPayloads,
                   consumerVars, lifeVars>>

\* The streams of up to MaxSplitWords words, each cut at two word
\* boundaries into three transfers of an even number of bytes (a transfer
\* may be empty).
SplitStreams ==
    UNION {[1 .. n -> SplitWords] : n \in 1 .. MaxSplitWords}

SplitInit ==
    /\ SplitStart
    /\ \E ws \in SplitStreams :
          \E c1 \in 0 .. Len(ws) :
             \E c2 \in c1 .. Len(ws) :
                usbPayloads = <<PayloadOf(SubSeq(ws, 1, c1)),
                                PayloadOf(SubSeq(ws, c1 + 1, c2)),
                                PayloadOf(SubSeq(ws, c2 + 1, Len(ws)))>>
    /\ completedPayloads = usbPayloads
    /\ buffer = <<>>
    /\ splitResult = <<>>

SplitNext ==
    \/ davisEventTranslator
    \/ \E w \in SplitWords : NextWordIs(w) /\ TimestampWord(w)
    \/ \E w \in SplitWords : NextWordIs(w) /\ TimestampReset(w)
    \/ \E w \in SplitWords : NextWordIs(w) /\ YAddress(w)
    \/ \E w \in SplitWords : NextWordIs(w) /\ XAddress(w)
    \/ \E w \in SplitWords : NextWordIs(w) /\ APSFrameStart(w)
    \/ \E w \in SplitWords : NextWordIs(w) /\ APSColumnStart(w)
    \/ \E w \in SplitWords : NextWordIs(w) /\ IMUStart(w)
    \/ \E w \in SplitWords : NextWordIs(w) /\ Misc8(w)
    \/ CommitPolarityPacket
    \/ CommitFramePacket
    \/ CommitIMU6Packet
    \/ CommitSpecialPacket
    \/ DecodeAgainAsOneTransfer

SplitSpec == SplitInit /\ [][SplitNext]_vars

\* C36: decoding is independent of how the word stream is split into
\* transfers of even length: when a stream has been decoded as three
\* transfers p, a, b and then again as the one transfer p a b, from the same
\* state, the second run ends in the decoder state of the first, with the
\* same packets put and dropped and the same events in them.  (With p a b for
\* a and nothing for b this gives p, a b the outcome of p a b as well, so a
\* and then b leave what a b leaves in the state p has led to.)
C36_SplitIntoTransfersDoesNotMatter ==
    WholeRunEnded => DecoderState = splitResult

\* A stream of three words has been decoded both ways; the first run was cut
\* between a Y address and the X address that completes the polarity event,
\* and again before the timestamp reset that committed the event.
C36_Witness ==
    /\ WholeRunEnded
    /\ usbPayloads = <<PayloadOf(<<EventWordOf(1, 0)>>),
                       PayloadOf(<<EventWordOf(3, 0)>>),
                       PayloadOf(<<EventWordOf(0, 1)>>)>>
    /\ Len(putLog) = 4
    /\ dataExchangeBuffer.elems[1].type = "POLARITY"
    /\ GetEvent(dataExchangeBuffer.elems[1], 0).valid


-----------------------------------------------------------------------------
\* Fill positions.  The slot of the event under construction is fetched at
\* the fill position at the start of every iteration, and the commit blocks
\* at its end replace a packet whose position has reached its capacity.
InProgressPackets ==
    <<<<currentPolarityPacket, currentPolarityPacketPosition>>,
      <<currentSpecialPacket, currentSpecialPacketPosition>>,
      <<currentFramePacket, currentFramePacketPosition>>,
      <<currentIMU6Packet, currentIMU6PacketPosition>>>>

\* The slot at the fill position is inside the packet.
SlotInsidePacket(filling) ==
    /\ filling[1].capacity >= 1
    /\ filling[2] >= 0 /\ filling[2] < filling[1].capacity
    /\ DOMAIN filling[1].events = 0 .. filling[1].capacity - 1

\* The step appends at most one event: the packet is the same packet, no slot
\* but the one at the fill position has changed, and the position has
\* stayed or has moved on by one.
AppendsAtMostOne(before, after) ==
    /\ after[1].id = before[1].id
    /\ after[1].capacity = before[1].capacity
    /\ \A n \in DOMAIN before[1].events :
          n # before[2] => after[1].events[n] = before[1].events[n]
    /\ after[2] \in {before[2], before[2] + 1}

\* C37: at the start of every word's iteration the fill position of each of
\* the four in-progress packets is below the packet's capacity, which is at
\* least one, and the decoding of one word appends at most one event to
\* each packet, in the slot at the fill position; so no event is written at
\* an index at or beyond the capacity.
C37_FillPositionStaysBelowCapacity ==
    /\ [](pc = "decode" =>
             \A k \in 1 .. 4 : SlotInsidePacket(InProgressPackets[k]))
    /\ [][Decodes =>
             \A k \in 1 .. 4 :
                AppendsAtMostOne(InProgressPackets[k], InProgressPackets[k]')
         ]_vars

\* The third X address has filled a polarity packet, which was committed for
\* that alone, and the next iteration starts with an empty packet; the
\* special packet holds the one event decoded before.
C37_Witness ==
    /\ pc = "decode" /\ nWords = MaxCommitWords
    /\ IsXWord(event) /\ ~forcePacketCommit
    /\ currentPolarityPacketPosition = 0
    /\ Len(dataExchangeBuffer.elems) = 1
    /\ dataExchangeBuffer.elems[1].type = "POLARITY"
    /\ GetEvent(dataExchangeBuffer.elems[1],
                MaxPolarityPacketSize - 1).valid
    /\ GetEvent(dataExchangeBuffer.elems[1],
                MaxPolarityPacketSize - 1).timestamp = 0
    /\ currentSpecialPacketPosition = 1

=============================================================================
